---------------------------- MODULE Spec2Model ----------------------------
(***************************************************************************)
(* State-machine model of BotFenix's GlobalPortfolio                       *)
(* (src/sniper_flow_bot/core/portfolio.py) and of the calls the per-symbol *)
(* loops of src/sniper_flow_bot/main.py make on it.                        *)
(*                                                                         *)
(* Numbers.  The program computes in Python floats.  The model computes in *)
(* fixed point:                                                            *)
(*   prices      in points            (1 point  = 0.01 USD)                *)
(*   quantities  in hundredths        (1 unit   = 0.01 contracts)          *)
(*   money       in points * units    (1 unit   = 0.0001 USD)              *)
(*   fractions   in 1/PCT_DEN         (1 unit   = 0.0001 = 1 basis point)  *)
(*   timestamps  in whole seconds since the epoch                          *)
(* A comparison of the code is modelled exactly, by cross-multiplying; a   *)
(* value the code stores (stop, target, quantity, fee) is rounded down to  *)
(* its unit.  Python's None is the value None below.                       *)
(***************************************************************************)
EXTENDS Integers, Sequences, FiniteSets, TLC

\* ------------------------------------------------------------ config.py
PCT_DEN == 10000
None == -1000000

INITIAL_BALANCE == 500000
LEVERAGE == 20
BASE_RISK_PER_TRADE == 300
MAX_TOTAL_RISK_PCT_OPEN == 1000
DAILY_MAX_LOSS_PCT == 600
DAILY_MAX_LOSS_ABS == 30000
MAX_TRADES_PER_DAY == 35
MAX_TRADES_PER_HOUR_PER_SYMBOL == 10
COOLDOWN_AFTER_TRADE_SEC == 5
MIN_RR_VS_FEES == 3
\* REWARD_RISK_BASE = 2.5, in tenths
REWARD_RISK_BASE_X10 == 25
SL_BUFFER_PCT == 8
FEE_MAKER == 2
FEE_TAKER == 4
INVALID_IMB_ENABLE == TRUE
INVALID_IMB_THRESHOLD == 9500
INVALID_IMB_CONSEC_SAMPLES == 4
INVALID_IMB_MIN_AGE_SEC == 5
INVALID_IMB_MIN_ADVERSE_TICKS == 3
MAX_TRADE_LIFETIME_LOW_VOL_SEC == 600
MAX_TRADE_LIFETIME_HIGH_VOL_SEC == 300
VOL_NORM_HIGH_THRESHOLD == 7000
NO_PROGRESS_EXIT_ENABLE == FALSE
NO_PROGRESS_MIN_AGE_SEC == 15
\* NO_PROGRESS_MIN_MFE_PCT = 0.0005 and NO_PROGRESS_GIVEBACK_PCT = 0.00025,
\* both in 1/100000
NO_PROGRESS_DEN == 100000
NO_PROGRESS_MIN_MFE_PCT == 50
NO_PROGRESS_GIVEBACK_PCT == 25
BREAKEVEN_TRIGGER_PCT == 25
TRAILING_STOP_PCT == 10
PARTIAL_TP_FRACTION == 5000
PARTIAL_TP_TRIGGER_PCT == 25
HOUR_SEC == 3600
DAY_SEC == 86400

\* TICK_SIZE.get(symbol, 0.0), in points: btcusdt 0.1, ethusdt 0.01
TickSizeOf(symbol) ==
    IF symbol = "btcusdt" THEN 10
    ELSE IF symbol \in {"ethusdt", "solusdt"} THEN 1
    ELSE 0

\* ------------------------------------------------------------ arithmetic
Abs(x) == IF x < 0 THEN 0 - x ELSE x
Max(a, b) == IF a >= b THEN a ELSE b
Min(a, b) == IF a <= b THEN a ELSE b
\* x * (n / PCT_DEN), rounded down
MulPct(x, n) == (x * n) \div PCT_DEN

\* ------------------------------------------------------------ time.gmtime
IsLeap(y) == (y % 4 = 0 /\ y % 100 # 0) \/ y % 400 = 0
DaysInYear(y) == IF IsLeap(y) THEN 366 ELSE 365
RECURSIVE YDayFrom(_, _)
YDayFrom(y, d) == IF d < DaysInYear(y) THEN d + 1 ELSE YDayFrom(y + 1, d - DaysInYear(y))
\* time.gmtime(ts).tm_yday: the day of the year, 1..366
TmYday(ts) == YDayFrom(1970, ts \div DAY_SEC)
\* the UTC calendar day of ts, as days since the epoch
UtcDay(ts) == ts \div DAY_SEC

VARIABLES
    balance,              \* self.balance
    equity,               \* self.equity
    positions,            \* self.positions: dict symbol -> Position
    trade_history,        \* self.trade_history: list of TradeRecord
    current_day,          \* self._current_day (None before the first call)
    start_of_day_balance, \* self._start_of_day_balance
    trades_today,         \* self._trades_today
    last_exit_ts,         \* self.last_exit_ts: dict symbol -> ts
    trades_last_hour,     \* self.trades_last_hour: dict symbol -> list of ts
    clock,                \* per symbol loop: the timestamp of its latest call
    opened,               \* per symbol: the timestamps of its successful opens
    gate_day,             \* the UTC day of the latest open a daily gate rejected
    last,                 \* the latest call: its operation, arguments and result
                          \* (closed: the labels of the records a tick returned)
    scored,               \* the latest generate_signal call: the metrics it
                          \* read and what it returned
    book,                 \* the latest order_book_imbalance call: the two
                          \* sides it was given and what it returned
    stats,                \* per symbol loop: its MarketStats object
    fed,                  \* per symbol: everything its MarketStats was ever
                          \* given, in arrival order
    loop,                 \* per symbol loop: the locals of run_symbol_loop
    got                   \* the latest calls of the four getters of a
                          \* MarketStats since its last update: their
                          \* arguments and what they returned

vars == <<balance, equity, positions, trade_history, current_day,
          start_of_day_balance, trades_today, last_exit_ts, trades_last_hour,
          clock, opened, gate_day, last, scored, book, stats, fed, loop, got>>

\* the variables of the portfolio and of its callers
portfolio_vars ==
    <<balance, equity, positions, trade_history, current_day,
      start_of_day_balance, trades_today, last_exit_ts, trades_last_hour,
      clock, opened, gate_day, last>>

\* the variables of the instrument loops' market data
market_vars == <<stats, fed, loop, got>>

\* the portfolio object, as one record
Self == [balance |-> balance, equity |-> equity, positions |-> positions,
         trade_history |-> trade_history, current_day |-> current_day,
         start_of_day_balance |-> start_of_day_balance,
         trades_today |-> trades_today, last_exit_ts |-> last_exit_ts,
         trades_last_hour |-> trades_last_hour]

\* dict.get(key, default)
DictGet(d, k, default) == IF k \in DOMAIN d THEN d[k] ELSE default
\* d[k] = v
DictSet(d, k, v) == [x \in DOMAIN d \cup {k} |-> IF x = k THEN v ELSE d[x]]
\* a del that empties the dictionary
DictDelAll(d, k) == [x \in {} |-> d[x]]
\* del d[k]
DictDel(d, k) == [x \in DOMAIN d \ {k} |-> d[x]]

\* [t for t in xs if ts - t < 3600]
RECURSIVE FilterLastHour(_, _)
FilterLastHour(xs, ts) ==
    IF xs = <<>> THEN <<>>
    ELSE IF ts - Head(xs) < HOUR_SEC
         THEN <<Head(xs)>> \o FilterLastHour(Tail(xs), ts)
         ELSE FilterLastHour(Tail(xs), ts)


\* ------------------------------------------------------------ risk / day
\* GlobalPortfolio._reset_if_new_day
ResetIfNewDay(P, ts) ==
    LET day == TmYday(ts) IN
    IF P.current_day = None \/ day # P.current_day
    THEN [P EXCEPT !.current_day = day,
                   !.start_of_day_balance = P.balance,
                   !.trades_today = 0]
    ELSE P

\* dd <= -DAILY_MAX_LOSS_PCT, with dd = _daily_drawdown_pct()
DailyLossPctReached(P) ==
    IF P.start_of_day_balance <= 0
    THEN 0 <= 0 - DAILY_MAX_LOSS_PCT
    ELSE (P.balance - P.start_of_day_balance) * PCT_DEN
            <= (0 - DAILY_MAX_LOSS_PCT) * P.start_of_day_balance

\* GlobalPortfolio._daily_drawdown_abs
DailyDrawdownAbs(P) == P.balance - P.start_of_day_balance

RECURSIVE SumRiskOver(_, _)
SumRiskOver(posns, S) ==
    IF S = {} THEN 0
    ELSE LET k == CHOOSE x \in S : TRUE
         IN posns[k].risk_pct + SumRiskOver(posns, S \ {k})

\* a _total_risk_pct_open that sees no open risk
NoOpenRisk(P) == 0

\* GlobalPortfolio._total_risk_pct_open
TotalRiskPctOpen(P) == SumRiskOver(P.positions, DOMAIN P.positions)

\* GlobalPortfolio._max_new_risk_pct_allowed
MaxNewRiskPctAllowed(P) == Max(0, MAX_TOTAL_RISK_PCT_OPEN - TotalRiskPctOpen(P))

\* GlobalPortfolio._calc_qty_from_risk; None when the stop distance is <= 0.
\* qty *= scale, with scale = balance*LEVERAGE*0.9/notional and
\* notional = entry_price*qty, is balance*LEVERAGE*0.9/entry_price.
CalcQtyFromRisk(P, entry_price, sl_price, risk_pct) ==
    LET sl_dist == Abs(entry_price - sl_price)
        risk_amount == MulPct(P.balance, risk_pct)
        qty == risk_amount \div sl_dist
        notional == entry_price * qty
    IN  IF sl_dist <= 0 THEN None
        ELSE IF notional > P.balance * LEVERAGE
             THEN ((P.balance * LEVERAGE * 9) \div 10) \div entry_price
             ELSE qty

\* GlobalPortfolio._can_open_trade: <<allowed, the portfolio after the call>>.
\* The 1e-9 tolerance of the last test is below the model's resolution.
CanOpenTrade(P, ts, risk_pct) ==
    LET Q == ResetIfNewDay(P, ts) IN
    [pf |-> Q,
     ok |-> /\ ~DailyLossPctReached(Q)
            /\ ~(DailyDrawdownAbs(Q) <= 0 - DAILY_MAX_LOSS_ABS)
            /\ ~(Q.trades_today >= MAX_TRADES_PER_DAY)
            /\ ~(risk_pct > MaxNewRiskPctAllowed(Q))]

\* ------------------------------------------------------------ open_position
RISK_MULT_DEN == 10

\* sl_price of open_position
StopPrice(side, recent_extreme_price) ==
    IF side = "LONG"
    THEN MulPct(recent_extreme_price, PCT_DEN - SL_BUFFER_PCT)
    ELSE MulPct(recent_extreme_price, PCT_DEN + SL_BUFFER_PCT)

\* tp_price of open_position
TargetPrice(side, price, sl_price) ==
    IF side = "LONG"
    THEN price + ((price - sl_price) * REWARD_RISK_BASE_X10) \div 10
    ELSE price - ((sl_price - price) * REWARD_RISK_BASE_X10) \div 10

\* estimated_fees of open_position, times PCT_DEN (exact)
EstimatedFeesX(price, tp_price, qty) ==
    price * qty * FEE_MAKER + tp_price * qty * FEE_TAKER

\* an open_position without the fee-ratio test
NoFeeFloor(price, tp_price, qty) == FALSE

\* tp_profit_gross < estimated_fees * MIN_RR_VS_FEES
FeesTooHigh(price, tp_price, qty) ==
    Abs(tp_price - price) * qty * PCT_DEN
        < EstimatedFeesX(price, tp_price, qty) * MIN_RR_VS_FEES

\* the risk fraction open_position asks for: base * signal.risk_mult
RequestedRisk(risk_mult) == (BASE_RISK_PER_TRADE * risk_mult) \div RISK_MULT_DEN

\* the risk fraction after the clamp to the remaining headroom
ClampRisk(risk_pct, max_new_risk) ==
    IF risk_pct > max_new_risk THEN max_new_risk ELSE risk_pct

\* Position(...) as open_position builds it
NewPosition(symbol, side, price, qty, sl_price, tp_price, ts, risk_pct) ==
    [symbol |-> symbol, side |-> side, entry_price |-> price, qty |-> qty,
     initial_qty |-> qty, sl_price |-> sl_price, tp_price |-> tp_price,
     entry_ts |-> ts, risk_pct |-> risk_pct,
     breakeven_done |-> FALSE, partial_taken |-> FALSE,
     max_favorable_price |-> price, min_favorable_price |-> price,
     min_adverse_price |-> price, max_adverse_price |-> price,
     invalid_imb_count |-> 0, adverse_ticks |-> 0,
     estimated_fees |-> EstimatedFeesX(price, tp_price, qty) \div PCT_DEN,
     entry_fee_total |-> (price * qty * FEE_MAKER) \div PCT_DEN]

Rejected(P, guard) == [pf |-> P, ret |-> "None", guard |-> guard]

\* open_position without its guards
NoPositionGuard(P, symbol) == FALSE
NoCooldownGuard(P, symbol, ts) == FALSE
NoHourlyGuard(trades_hour) == FALSE

\* the guard "symbol in self.positions" of open_position
HasPositionGuard(P, symbol) == symbol \in DOMAIN P.positions

\* the cooldown guard of open_position
CooldownGuard(P, symbol, ts) ==
    ts - DictGet(P.last_exit_ts, symbol, 0) < COOLDOWN_AFTER_TRADE_SEC

\* the hourly guard of open_position, on the filtered list
HourlyGuard(trades_hour) == Len(trades_hour) >= MAX_TRADES_PER_HOUR_PER_SYMBOL

\* an open that books the entry fee on the position only
PayNoEntryFee(P, pos) == P.balance

\* self.balance -= entry_fee of open_position
PayEntryFee(P, pos) == P.balance - pos.entry_fee_total

\* GlobalPortfolio.open_position: the portfolio after the call, what it
\* returns ("None" or "pos") and the guard that rejected
OpenPositionCall(P, symbol, ts, price, risk_mult, recent_extreme_price, side) ==
    IF HasPositionGuard(P, symbol) THEN Rejected(P, "position")
    ELSE IF CooldownGuard(P, symbol, ts) THEN Rejected(P, "cooldown")
    ELSE
    LET trades_hour == FilterLastHour(DictGet(P.trades_last_hour, symbol, <<>>), ts)
        P1 == [P EXCEPT !.trades_last_hour = DictSet(@, symbol, trades_hour)]
    IN
    IF HourlyGuard(trades_hour) THEN Rejected(P1, "hourly")
    ELSE
    LET max_new_risk == MaxNewRiskPctAllowed(P1) IN
    IF max_new_risk <= 0 THEN Rejected(P1, "headroom")
    ELSE
    LET risk_pct == ClampRisk(RequestedRisk(risk_mult), max_new_risk)
        can == CanOpenTrade(P1, ts, risk_pct)
        P2 == can.pf
    IN
    IF ~can.ok THEN Rejected(P2, "daily")
    ELSE
    LET sl_price == StopPrice(side, recent_extreme_price)
        qty == CalcQtyFromRisk(P2, price, sl_price, risk_pct)
    IN
    IF qty = None \/ qty <= 0 THEN Rejected(P2, "sizing")
    ELSE
    LET tp_price == TargetPrice(side, price, sl_price) IN
    IF FeesTooHigh(price, tp_price, qty) THEN Rejected(P2, "fees")
    ELSE
    LET pos == NewPosition(symbol, side, price, qty, sl_price, tp_price, ts, risk_pct)
    IN [pf |-> [P2 EXCEPT !.balance = PayEntryFee(P2, pos),
                          !.positions = DictSet(@, symbol, pos)],
        ret |-> "pos", guard |-> "none"]

\* ------------------------------------------------------------ on_price_tick
\* GlobalPortfolio._update_trade_management: extremes, breakeven, trailing
UpdateExtremes(pos, price) ==
    IF pos.side = "LONG"
    THEN [pos EXCEPT !.max_favorable_price = Max(@, price),
                     !.min_adverse_price = Min(@, price)]
    ELSE [pos EXCEPT !.min_favorable_price = Min(@, price),
                     !.max_adverse_price = Max(@, price)]

\* move >= pos.entry_price * BREAKEVEN_TRIGGER_PCT
BreakevenTriggered(pos, price) ==
    LET move == IF pos.side = "LONG" THEN price - pos.entry_price
                ELSE pos.entry_price - price
    IN move * PCT_DEN >= pos.entry_price * BREAKEVEN_TRIGGER_PCT

ApplyBreakeven(pos, price) ==
    IF ~pos.breakeven_done /\ BreakevenTriggered(pos, price)
    THEN [pos EXCEPT !.sl_price = pos.entry_price, !.breakeven_done = TRUE]
    ELSE pos

\* the stop after the trailing step, for a position whose breakeven is done
TrailedStop(pos, price) ==
    IF pos.side = "LONG"
    THEN LET trail_sl == MulPct(price, PCT_DEN - TRAILING_STOP_PCT)
         IN IF trail_sl > pos.sl_price THEN trail_sl ELSE pos.sl_price
    ELSE LET trail_sl == MulPct(price, PCT_DEN + TRAILING_STOP_PCT)
         IN IF trail_sl < pos.sl_price THEN trail_sl ELSE pos.sl_price

ApplyTrailing(pos, price) ==
    IF pos.breakeven_done
    THEN [pos EXCEPT !.sl_price = TrailedStop(pos, price)]
    ELSE pos

UpdateTradeManagement(pos, price) ==
    ApplyTrailing(ApplyBreakeven(UpdateExtremes(pos, price), price), price)

\* an _update_adverse_ticks that never counts a tick
NoAdverseTicks(pos, price) == [pos EXCEPT !.adverse_ticks = 0]

\* GlobalPortfolio._update_adverse_ticks
UpdateAdverseTicks(pos, price) ==
    LET tick == TickSizeOf(pos.symbol)
        move == IF pos.side = "LONG" THEN Max(0, pos.entry_price - price)
                ELSE Max(0, price - pos.entry_price)
    IN  IF tick <= 0 THEN [pos EXCEPT !.adverse_ticks = 0]
        ELSE [pos EXCEPT !.adverse_ticks = move \div tick]

\* TradeRecord(...) as the two close functions build it
NewTradeRecord(pos, ts, exit_price, qty_close, realized, fees, label) ==
    [symbol |-> pos.symbol, side |-> pos.side, entry_price |-> pos.entry_price,
     exit_price |-> exit_price, qty |-> qty_close, sl_price |-> pos.sl_price,
     tp_price |-> pos.tp_price, entry_ts |-> pos.entry_ts, exit_ts |-> ts,
     realized_pnl |-> realized, fees_paid |-> fees, reason |-> label]

\* pnl_price - exit fee of closing qty_close at exit_price
PnlPrice(pos, exit_price, qty_close) ==
    IF pos.side = "LONG" THEN (exit_price - pos.entry_price) * qty_close
    ELSE (pos.entry_price - exit_price) * qty_close

ExitFee(exit_price, qty_close) == (exit_price * qty_close * FEE_TAKER) \div PCT_DEN

\* qty_close of _close_partial: pos.qty * PARTIAL_TP_FRACTION
PartialQty(qty) == MulPct(qty, PARTIAL_TP_FRACTION)

\* a balance written from the snapshot taken at the start of the day
RealizeStale(P, realized) == P.start_of_day_balance + realized

\* self.balance += realized of _close_partial and _close_full
Realize(P, realized) == P.balance + realized

\* GlobalPortfolio._close_partial: the portfolio after it and the records it
\* returns
\* a _close_partial that leaves partial_taken as it was
KeepPartialFlag(pos) == pos

\* pos.partial_taken = True of _close_partial
MarkPartialTaken(pos) == [pos EXCEPT !.partial_taken = TRUE]

ClosePartial(P, symbol, ts, exit_price, label) ==
    LET pos == P.positions[symbol]
        qty_close == PartialQty(pos.qty)
        exit_fee == ExitFee(exit_price, qty_close)
        realized == PnlPrice(pos, exit_price, qty_close) - exit_fee
        tr == NewTradeRecord(pos, ts, exit_price, qty_close, realized, exit_fee, label)
    IN  IF qty_close <= 0 THEN [pf |-> P, closed |-> <<>>]
        ELSE [pf |-> [P EXCEPT !.balance = Realize(P, realized),
                               !.trades_today = @ + 1,
                               !.trade_history = Append(@, tr),
                               !.positions[symbol] =
                                    MarkPartialTaken([@ EXCEPT !.qty = @ - qty_close])],
              closed |-> <<tr>>]

\* a _close_full that closes the entry quantity
EntryQty(pos) == pos.initial_qty

\* qty_close of _close_full
RemainingQty(pos) == pos.qty

\* GlobalPortfolio._close_full
CloseFull(P, symbol, ts, exit_price, label) ==
    LET pos == P.positions[symbol]
        qty_close == RemainingQty(pos)
        exit_fee == ExitFee(exit_price, qty_close)
        realized == PnlPrice(pos, exit_price, qty_close) - exit_fee
        tr == NewTradeRecord(pos, ts, exit_price, qty_close, realized, exit_fee, label)
        trades_hour == FilterLastHour(DictGet(P.trades_last_hour, symbol, <<>>), ts)
    IN  IF qty_close <= 0 THEN [pf |-> P, closed |-> <<>>]
        ELSE [pf |-> [P EXCEPT !.balance = Realize(P, realized),
                               !.trades_today = @ + 1,
                               !.trade_history = Append(@, tr),
                               !.last_exit_ts = DictSet(@, symbol, ts),
                               !.trades_last_hour =
                                    DictSet(@, symbol, Append(trades_hour, ts)),
                               !.positions = DictDel(@, symbol)],
              closed |-> <<tr>>]

\* the fast partial take-profit of on_price_tick: price >= tp1_long for a
\* LONG, price <= tp1_short for a SHORT
PartialTriggered(pos, price) ==
    IF pos.side = "LONG"
    THEN price * PCT_DEN >= pos.entry_price * (PCT_DEN + PARTIAL_TP_TRIGGER_PCT)
    ELSE price * PCT_DEN <= pos.entry_price * (PCT_DEN - PARTIAL_TP_TRIGGER_PCT)

\* tp1_long / tp1_short, the price the partial is filled at
PartialPrice(pos) ==
    IF pos.side = "LONG"
    THEN MulPct(pos.entry_price, PCT_DEN + PARTIAL_TP_TRIGGER_PCT)
    ELSE MulPct(pos.entry_price, PCT_DEN - PARTIAL_TP_TRIGGER_PCT)

NoExit == [price |-> None, label |-> ""]

\* a stop exit that fills at the target and is labeled TP
StopExitAsTarget(pos) == [price |-> pos.tp_price, label |-> "TP"]

\* exit_price = pos.sl_price, exit_label = "SL"
StopExit(pos) == [price |-> pos.sl_price, label |-> "SL"]

\* a target exit that does not wait for the partial
TargetAlways(pos) == TRUE

\* the "pos.partial_taken and" of the TP branch
TargetAllowed(pos) == pos.partial_taken

\* the SL / TP test of on_price_tick
StopOrTarget(pos, price) ==
    IF pos.side = "LONG"
    THEN IF price <= pos.sl_price THEN StopExit(pos)
         ELSE IF TargetAllowed(pos) /\ price >= pos.tp_price
              THEN [price |-> pos.tp_price, label |-> "TP"]
              ELSE NoExit
    ELSE IF price >= pos.sl_price THEN StopExit(pos)
         ELSE IF TargetAllowed(pos) /\ price <= pos.tp_price
              THEN [price |-> pos.tp_price, label |-> "TP"]
              ELSE NoExit

\* GlobalPortfolio._check_invalid_imb_close: the position after the call
\* (its consecutive counter) and whether a reason is returned
CheckInvalidImbClose(pos, imbalance, now_ts) ==
    LET age == now_ts - pos.entry_ts
        adverse == IF pos.side = "LONG" THEN imbalance <= 0 - INVALID_IMB_THRESHOLD
                   ELSE imbalance >= INVALID_IMB_THRESHOLD
        reset == [pos |-> [pos EXCEPT !.invalid_imb_count = 0], close |-> FALSE]
        count == pos.invalid_imb_count + 1
        counted == [pos EXCEPT !.invalid_imb_count = count]
    IN  IF ~INVALID_IMB_ENABLE \/ imbalance = None THEN reset
        ELSE IF age < INVALID_IMB_MIN_AGE_SEC THEN reset
        ELSE IF ~adverse THEN reset
        ELSE IF count < INVALID_IMB_CONSEC_SAMPLES THEN [pos |-> counted, close |-> FALSE]
        ELSE IF pos.adverse_ticks < INVALID_IMB_MIN_ADVERSE_TICKS
             THEN [pos |-> counted, close |-> FALSE]
        ELSE [pos |-> counted, close |-> TRUE]

\* GlobalPortfolio._check_no_progress
CheckNoProgress(pos, price, ts) ==
    LET entry == pos.entry_price
        mfe == IF pos.side = "LONG" THEN pos.max_favorable_price - entry
               ELSE entry - pos.min_favorable_price
        current == IF pos.side = "LONG" THEN price - entry ELSE entry - price
    IN  /\ NO_PROGRESS_EXIT_ENABLE
        /\ ts - pos.entry_ts >= NO_PROGRESS_MIN_AGE_SEC
        /\ ~(mfe * NO_PROGRESS_DEN < NO_PROGRESS_MIN_MFE_PCT * entry)
        /\ current * NO_PROGRESS_DEN <= mfe * NO_PROGRESS_DEN - NO_PROGRESS_GIVEBACK_PCT * entry

\* a limit that is twice the low-volatility lifetime while the normalized
\* volume is unavailable
GetTimeStopLimitSlack(vol_norm) ==
    IF vol_norm = None THEN 2 * MAX_TRADE_LIFETIME_LOW_VOL_SEC
    ELSE IF vol_norm >= VOL_NORM_HIGH_THRESHOLD THEN MAX_TRADE_LIFETIME_HIGH_VOL_SEC
    ELSE MAX_TRADE_LIFETIME_LOW_VOL_SEC

\* GlobalPortfolio._get_time_stop_limit
GetTimeStopLimit(vol_norm) ==
    IF vol_norm = None THEN MAX_TRADE_LIFETIME_LOW_VOL_SEC
    ELSE IF vol_norm >= VOL_NORM_HIGH_THRESHOLD THEN MAX_TRADE_LIFETIME_HIGH_VOL_SEC
    ELSE MAX_TRADE_LIFETIME_LOW_VOL_SEC

\* a time stop that waits until the age is above the limit
TimeStopExceeded(pos, ts, vol_norm) == ts - pos.entry_ts > GetTimeStopLimit(vol_norm)

\* the time-stop test of on_price_tick
TimeStopReached(pos, ts, vol_norm) == ts - pos.entry_ts >= GetTimeStopLimit(vol_norm)

\* a _recompute_equity that also writes the balance
RecomputeIntoBalance(P, symbol, price) ==
    IF symbol \in DOMAIN P.positions
    THEN [P EXCEPT !.balance = @ - ExitFee(price, P.positions[symbol].qty)]
    ELSE P

\* GlobalPortfolio._recompute_equity(prices={symbol: price}): only the ticked
\* symbol has a price, every other position is skipped
RecomputeEquity(P, symbol, price) ==
    IF symbol \in DOMAIN P.positions
    THEN LET pos == P.positions[symbol]
             unreal == IF pos.side = "LONG" THEN (price - pos.entry_price) * pos.qty
                       ELSE (pos.entry_price - price) * pos.qty
         IN [P EXCEPT !.equity = P.balance + unreal - ExitFee(price, pos.qty)]
    ELSE [P EXCEPT !.equity = P.balance]

\* GlobalPortfolio.on_price_tick, from the last statement back to the first.
\* Each step takes what the steps before it computed.

\* a returned list with the full close put first
FullCloseFirst(part_closed, full_closed) == full_closed \o part_closed

\* closed += self._close_partial(...); closed += self._close_full(...)
ClosedList(part_closed, full_closed) == part_closed \o full_closed

\* "full close", then _recompute_equity; part is what _close_partial
\* returned, pos the position after the exit checks, exit the exit decided
TickFinish(part, pos, exit, symbol, ts, price) ==
    LET P3 == [part.pf EXCEPT !.positions[symbol] = pos]
        full == IF exit.price # None /\ pos.qty > 0
                THEN CloseFull(P3, symbol, ts, exit.price, exit.label)
                ELSE [pf |-> P3, closed |-> <<>>]
    IN [pf |-> RecomputeEquity(full.pf, symbol, price),
        closed |-> ClosedList(part.closed, full.closed)]

\* a time stop that overrides the exit already decided
TimeStopFirst(pos, exit, ts, price, vol_norm) ==
    IF TimeStopReached(pos, ts, vol_norm)
    THEN [price |-> price, label |-> "TIME_STOP"]
    ELSE exit

\* the exit after the NO_PROGRESS and TIME_STOP tests
LateExit(pos, exit, ts, price, vol_norm) ==
    IF exit.price # None THEN exit
    ELSE IF CheckNoProgress(pos, price, ts)
         THEN [price |-> price, label |-> "NO_PROGRESS"]
    ELSE IF TimeStopReached(pos, ts, vol_norm)
         THEN [price |-> price, label |-> "TIME_STOP"]
    ELSE NoExit

\* the INVALID_IMB test, run when SL / TP set no exit; inv is what
\* _check_invalid_imb_close returned
TickAfterInvalid(part, inv, symbol, ts, price, vol_norm) ==
    TickFinish(part, inv.pos,
               LateExit(inv.pos,
                        IF inv.close THEN [price |-> price, label |-> "INVALID_IMB"]
                        ELSE NoExit,
                        ts, price, vol_norm),
               symbol, ts, price)

\* the exit checks on the position left by the partial take-profit
TickExits(part, pos, exit, symbol, ts, price, imbalance, vol_norm) ==
    IF exit.price = None
    THEN TickAfterInvalid(part, CheckInvalidImbClose(pos, imbalance, ts),
                          symbol, ts, price, vol_norm)
    ELSE TickFinish(part, pos, exit, symbol, ts, price)

TickAfterPartial(part, symbol, ts, price, imbalance, vol_norm) ==
    TickExits(part, part.pf.positions[symbol],
              StopOrTarget(part.pf.positions[symbol], price),
              symbol, ts, price, imbalance, vol_norm)

\* the fast partial take-profit, on the portfolio P1 after the management
TickPartial(P1, symbol, ts, price, imbalance, vol_norm) ==
    TickAfterPartial(
        IF ~P1.positions[symbol].partial_taken
              /\ PartialTriggered(P1.positions[symbol], price)
        THEN ClosePartial(P1, symbol, ts, PartialPrice(P1.positions[symbol]), "TP1_FAST")
        ELSE [pf |-> P1, closed |-> <<>>],
        symbol, ts, price, imbalance, vol_norm)

\* the body of on_price_tick after _reset_if_new_day
TickManage(P0, symbol, ts, price, imbalance, vol_norm) ==
    IF symbol \notin DOMAIN P0.positions
    THEN [pf |-> RecomputeEquity(P0, symbol, price), closed |-> <<>>]
    ELSE TickPartial(
            [P0 EXCEPT !.positions[symbol] =
                UpdateAdverseTicks(UpdateTradeManagement(@, price), price)],
            symbol, ts, price, imbalance, vol_norm)

\* GlobalPortfolio.on_price_tick: the portfolio after the call and the list
\* of trade records it returns
OnPriceTickCall(P, symbol, ts, price, imbalance, vol_norm) ==
    TickManage(ResetIfNewDay(P, ts), symbol, ts, price, imbalance, vol_norm)

\* ------------------------------------------------------------ generate_signal
\* Units of the scorer: smooth imbalance in 1/SIMB_DEN, normalized volume in
\* 1/PCT_DEN, volatility in 1/VOL_DEN, cvd slope in whole units, sub-scores
\* (0-100) in 1/SUB_DEN of a point, combined scores in 1/SCORE_DEN of a point.
SIMB_DEN == 2100
VOL_DEN == 100000
SUB_DEN == 360

HIGH_CONV_RISK_MULT == 16
SCORE_MIN_FOR_CANDIDATE == 45
SCORE_SNIPER_MIN == 90
SCORE_WEIGHT_CVD == 35
SCORE_WEIGHT_IMBALANCE == 45
SCORE_WEIGHT_VOLUME == 15
IMBALANCE_SCORE_BASE == 26
IMBALANCE_SCORE_MAX == 40
CVD_SLOPE_THRESHOLD == 10
MIN_VOL_NORM == 3000
BONUS_VOL_NORM == 7000
IMBALANCE_LONG_ENTRY == 840
\* IMBALANCE_LONG_EXTREME = 0.80
IMBALANCE_LONG_EXTREME == 1680
IMBALANCE_SHORT_ENTRY == -840
CVD_SLOPE_STRONG_UP == 100
CVD_SLOPE_WEAK_UP == 30
CVD_SLOPE_STRONG_DOWN == -100
CVD_SLOPE_WEAK_DOWN == -30
ANTI_CHASE_ENABLE == TRUE
ANTI_CHASE_LOOKBACK_TICKS == 5
ANTI_CHASE_MAX_MOVE_PCT == 20
VOL_RET_LOOKBACK == 60
VOLATILITY_MIN == 4
VOLATILITY_MAX == 250

\* total_weight of generate_signal
TotalWeight == SCORE_WEIGHT_CVD + SCORE_WEIGHT_IMBALANCE + SCORE_WEIGHT_VOLUME
\* a combined score is held as its weighted sum: the division by total_weight
\* is carried by the unit
SCORE_DEN == SUB_DEN * TotalWeight
\* a threshold of config.py, in the unit of the combined scores
Pts(x) == x * SCORE_DEN

\* classify_cvd
ClassifyCvd(cvd_slope) ==
    IF cvd_slope >= CVD_SLOPE_STRONG_UP THEN "CVD_STRONG_BULLISH"
    ELSE IF cvd_slope >= CVD_SLOPE_WEAK_UP THEN "CVD_WEAK_BULLISH"
    ELSE IF cvd_slope <= CVD_SLOPE_STRONG_DOWN THEN "CVD_STRONG_BEARISH"
    ELSE IF cvd_slope <= CVD_SLOPE_WEAK_DOWN THEN "CVD_WEAK_BEARISH"
    ELSE "CVD_NEUTRAL"

\* frac of _imbalance_score, clamped to [0, 1], as a numerator over den
ClampFrac(num, den) == Min(den, Max(0, num))

\* base + frac * (max - base) of _imbalance_score, in 1/den of a raw point
RawImbScore(num, den) ==
    IMBALANCE_SCORE_BASE * den
        + ClampFrac(num, den) * (IMBALANCE_SCORE_MAX - IMBALANCE_SCORE_BASE)

\* _imbalance_score: the raw long and short scores, each as <<numerator, den>>
ImbalanceScore(imbalance) ==
    LET ld == SIMB_DEN - IMBALANCE_LONG_ENTRY
        sd == IMBALANCE_SHORT_ENTRY + SIMB_DEN
    IN IF imbalance = None THEN [long |-> <<0, 1>>, short |-> <<0, 1>>]
       ELSE [long |->
                IF /\ imbalance > 0 /\ IMBALANCE_LONG_ENTRY < SIMB_DEN
                   /\ imbalance > IMBALANCE_LONG_ENTRY
                THEN <<RawImbScore(imbalance - IMBALANCE_LONG_ENTRY, ld), ld>>
                ELSE <<0, 1>>,
             short |->
                IF /\ imbalance < 0 /\ IMBALANCE_SHORT_ENTRY < 0
                   /\ imbalance < IMBALANCE_SHORT_ENTRY
                THEN <<RawImbScore(IMBALANCE_SHORT_ENTRY - imbalance, sd), sd>>
                ELSE <<0, 1>>]

\* ScalperStrategy._is_data_sufficient, with the vol_norm test of generate_signal
IsDataSufficient(m) ==
    m.vol # None /\ m.smooth_imb # None /\ m.cvd_slope # None /\ m.vol_norm # None

\* ScalperStrategy._is_history_insufficient (prices and cvd_history have one
\* length: MarketStats.update appends to both)
IsHistoryInsufficient(m) == m.n < 50 \/ m.n < 50

\* ScalperStrategy._calculate_cvd_score
CalculateCvdScore(cvd_slope) ==
    LET c == ClassifyCvd(cvd_slope)
        l == IF c = "CVD_STRONG_BULLISH" THEN 100 * SUB_DEN
             ELSE IF c = "CVD_WEAK_BULLISH" THEN 60 * SUB_DEN ELSE 0
        s == IF c = "CVD_STRONG_BEARISH" THEN 100 * SUB_DEN
             ELSE IF c = "CVD_WEAK_BEARISH" THEN 60 * SUB_DEN ELSE 0
    IN IF Abs(cvd_slope) < CVD_SLOPE_THRESHOLD
       THEN [long |-> l \div 2, short |-> s \div 2]
       ELSE [long |-> l, short |-> s]

\* (score / IMBALANCE_SCORE_MAX) * 100 of _calculate_imbalance_score
NormImb(raw) ==
    IF IMBALANCE_SCORE_MAX > 0
    THEN (raw[1] * 100 * SUB_DEN) \div (IMBALANCE_SCORE_MAX * raw[2])
    ELSE 0

\* ScalperStrategy._calculate_imbalance_score
CalculateImbalanceScore(imbalance) ==
    LET r == ImbalanceScore(imbalance)
    IN [long |-> NormImb(r.long), short |-> NormImb(r.short)]

\* ScalperStrategy._calculate_volume_score
CalculateVolumeScore(vol_norm, vol) ==
    IF ~(VOLATILITY_MIN < vol /\ vol < VOLATILITY_MAX) THEN 0
    ELSE IF vol_norm < MIN_VOL_NORM THEN 0
    ELSE IF vol_norm > BONUS_VOL_NORM THEN 100 * SUB_DEN
    ELSE Max(0, Min(100 * SUB_DEN,
             ((vol_norm - MIN_VOL_NORM) * 100 * SUB_DEN)
                 \div (BONUS_VOL_NORM - MIN_VOL_NORM)))

\* the anti-chase filter of generate_signal: pct_move > ANTI_CHASE_MAX_MOVE_PCT
\* (a quotient by a negative price_past is never above the limit)
AntiChase(m) ==
    /\ ANTI_CHASE_ENABLE
    /\ m.n > ANTI_CHASE_LOOKBACK_TICKS
    /\ m.price_past > 0
    /\ Abs(m.price - m.price_past) * PCT_DEN > ANTI_CHASE_MAX_MOVE_PCT * m.price_past

\* abs(price - price_past) / price_past of the anti-chase filter raises
\* ZeroDivisionError on a zero price_past
GenerateSignalRaises(m) ==
    /\ IsDataSufficient(m)
    /\ ~IsHistoryInsufficient(m)
    /\ ANTI_CHASE_ENABLE
    /\ m.n > ANTI_CHASE_LOOKBACK_TICKS
    /\ m.price_past = 0

\* score_long / score_short of generate_signal
WeightedScore(cvd, imb, vol_score) ==
    cvd * SCORE_WEIGHT_CVD + imb * SCORE_WEIGHT_IMBALANCE
        + vol_score * SCORE_WEIGHT_VOLUME

\* the two combined scores of generate_signal for the metrics m
Scores(m) ==
    LET cvd == CalculateCvdScore(m.cvd_slope)
        imb == CalculateImbalanceScore(m.smooth_imb)
        vs == CalculateVolumeScore(m.vol_norm, m.vol)
    IN [long |-> WeightedScore(cvd.long, imb.long, vs),
        short |-> WeightedScore(cvd.short, imb.short, vs)]

\* a decision that lets a tie through
WinsOnTie(own, other) == own >= Pts(SCORE_MIN_FOR_CANDIDATE) /\ own >= other

\* the test of the decision logic of generate_signal for one side
Wins(own, other) == own >= Pts(SCORE_MIN_FOR_CANDIDATE) /\ own > other

\* a classification that needs more than the sniper minimum
AboveSniperMin(final_score) == final_score > Pts(SCORE_SNIPER_MIN)

\* final_score >= SCORE_SNIPER_MIN of generate_signal
IsSniper(final_score) == final_score >= Pts(SCORE_SNIPER_MIN)

\* the Signal generate_signal builds (its reason string is left out)
MakeSignal(symbol, final_side, final_score) ==
    [symbol |-> symbol, side |-> final_side, score |-> final_score,
     risk_mult |-> IF IsSniper(final_score) THEN HIGH_CONV_RISK_MULT
                   ELSE RISK_MULT_DEN,
     score_class |-> IF IsSniper(final_score) THEN "SNIPER" ELSE "STANDARD"]

\* the decision and classification steps of generate_signal; the result is
\* <<>> for None and <<signal>> for a Signal
Decide(symbol, sc) ==
    IF Wins(sc.long, sc.short) THEN <<MakeSignal(symbol, "LONG", sc.long)>>
    ELSE IF Wins(sc.short, sc.long) THEN <<MakeSignal(symbol, "SHORT", sc.short)>>
    ELSE <<>>

\* ScalperStrategy.generate_signal, on the metrics m its MarketStats returns
GenerateSignal(symbol, m) ==
    IF GenerateSignalRaises(m) THEN <<>>
    ELSE IF ~IsDataSufficient(m) THEN <<>>
    ELSE IF IsHistoryInsufficient(m) THEN <<>>
    ELSE IF AntiChase(m) THEN <<>>
    ELSE Decide(symbol, Scores(m))

\* ------------------------------------------------------------ order_book_imbalance
\* An order book side is a sequence of levels <<price, qty>>; the imbalance
\* is held exactly, as <<numerator, denominator>>.
DEPTH_LEVELS == 5

\* a slice that keeps every level of the side
AllLevels(levels) == levels

\* bids[:depth_levels]
TopLevels(levels) == SubSeq(levels, 1, Min(DEPTH_LEVELS, Len(levels)))

\* sum(q for _, q in top)
RECURSIVE SumQtyLevels(_)
SumQtyLevels(levels) ==
    IF levels = <<>> THEN 0 ELSE Head(levels)[2] + SumQtyLevels(Tail(levels))

\* order_book_imbalance(bids, asks)
OrderBookImbalance(bids, asks) ==
    IF bids = <<>> \/ asks = <<>> THEN <<0, 1>>
    ELSE LET bid_vol == SumQtyLevels(TopLevels(bids))
             ask_vol == SumQtyLevels(TopLevels(asks))
             total == bid_vol + ask_vol
         IN IF total <= 0 THEN <<0, 1>> ELSE <<bid_vol - ask_vol, total>>

\* ------------------------------------------------------------ MarketStats
\* Units: prices in points, returns in 1/PCT_DEN, imbalances in 1/SIMB_DEN,
\* volatility in 1/VOL_DEN, normalized volume in 1/PCT_DEN.
VOL_WINDOW_SIZE == 1000
CVD_CONTEXT_WINDOW_TICKS == 60
SMOOTH_IMB_WINDOW == 3
CVD_SLOPE_LOOKBACK == 7
VOL_NORM_LOOKBACK == 100
VOL_NORM_MIN_SAMPLES == 20

\* MarketStats.__init__(window_size)
EmptyStats(window_size) ==
    [window_size |-> window_size, prices |-> <<>>, cvd_history |-> <<>>,
     imbalances |-> <<>>, returns |-> <<>>, volumes |-> <<>>,
     cvd_values |-> <<>>]

\* a full window that refuses the new element
PushKeepOldest(w, x, maxlen) == IF Len(w) >= maxlen THEN w ELSE Append(w, x)

\* deque(maxlen=...).append(x): a full window drops its oldest element
Push(w, x, maxlen) ==
    IF Len(w) >= maxlen THEN Append(Tail(w), x) ELSE Append(w, x)

\* ret = (price - prev) / prev
ReturnOf(prev, price) == ((price - prev) * PCT_DEN) \div prev

\* a return is computed only after a positive previous price
HasReturn(S) == S.prices # <<>> /\ S.prices[Len(S.prices)] > 0

\* MarketStats.update(price, cvd, imbalance, volume)
StatsUpdate(S, price, cvd, imbalance, volume) ==
    [S EXCEPT
        !.returns = IF HasReturn(S)
                    THEN Push(@, ReturnOf(S.prices[Len(S.prices)], price),
                              S.window_size)
                    ELSE @,
        !.prices = Push(@, price, S.window_size),
        !.cvd_history = Push(@, cvd, S.window_size),
        !.imbalances = Push(@, imbalance, S.window_size),
        !.volumes = Push(@, volume, S.window_size),
        !.cvd_values = Push(@, cvd, CVD_CONTEXT_WINDOW_TICKS)]

\* list(w)[-n:]  (the whole list when n is 0 or more than its length)
LastN(w, n) ==
    IF n <= 0 \/ n >= Len(w) THEN w ELSE SubSeq(w, Len(w) - n + 1, Len(w))

\* the two halves of a list of two or more elements
FirstHalf(w) == SubSeq(w, 1, Len(w) \div 2)
SecondHalf(w) == SubSeq(w, Len(w) \div 2 + 1, Len(w))
RECURSIVE SumSeq(_)
SumSeq(w) ==
    IF w = <<>> THEN 0
    ELSE IF Len(w) = 1 THEN w[1]
    ELSE SumSeq(FirstHalf(w)) + SumSeq(SecondHalf(w))
RECURSIVE SumSqSeq(_)
SumSqSeq(w) ==
    IF w = <<>> THEN 0
    ELSE IF Len(w) = 1 THEN w[1] * w[1]
    ELSE SumSqSeq(FirstHalf(w)) + SumSqSeq(SecondHalf(w))
RECURSIVE MinSeq(_)
MinSeq(w) ==
    IF Len(w) = 1 THEN w[1]
    ELSE Min(MinSeq(FirstHalf(w)), MinSeq(SecondHalf(w)))
RECURSIVE MaxSeq(_)
MaxSeq(w) ==
    IF Len(w) = 1 THEN w[1]
    ELSE Max(MaxSeq(FirstHalf(w)), MaxSeq(SecondHalf(w)))

\* the integer square root, by bisection between lo and hi
SQRT_MAX == 20000
RECURSIVE SqrtBetween(_, _, _)
SqrtBetween(x, lo, hi) ==
    IF hi - lo <= 1 THEN lo
    ELSE LET mid == (lo + hi) \div 2
         IN IF mid * mid <= x THEN SqrtBetween(x, mid, hi)
            ELSE SqrtBetween(x, lo, mid)
ISqrt(x) ==
    IF x <= 0 THEN 0
    ELSE IF x >= SQRT_MAX * SQRT_MAX THEN SQRT_MAX
    ELSE SqrtBetween(x, 0, SQRT_MAX)

\* np.std(tail, ddof=1), from returns in 1/PCT_DEN to a volatility in
\* 1/VOL_DEN, rounded down
StdDdof1(tail) ==
    LET n == Len(tail)
        s == SumSeq(tail)
        dev == SumSqSeq(tail) - (s * s) \div n
        k == VOL_DEN \div PCT_DEN
    IN IF dev < (SQRT_MAX * SQRT_MAX) \div (k * k)
       THEN ISqrt((dev * k * k) \div (n - 1))
       ELSE k * ISqrt(dev \div (n - 1))

\* a volatility that is returned as soon as two returns exist
GetVolatilityEarly(S, n_points) ==
    IF Len(S.returns) < 2 THEN None ELSE StdDdof1(LastN(S.returns, n_points))

\* MarketStats.get_volatility(n_points)
GetVolatility(S, n_points) ==
    IF Len(S.returns) < n_points THEN None
    ELSE IF Len(LastN(S.returns, n_points)) < 2 THEN None
    ELSE StdDdof1(LastN(S.returns, n_points))

\* MarketStats.get_smooth_imbalance(window); the mean is rounded down
GetSmoothImbalance(S, window) ==
    IF S.imbalances = <<>> THEN None
    ELSE IF Len(S.imbalances) < window THEN S.imbalances[Len(S.imbalances)]
    ELSE SumSeq(LastN(S.imbalances, window))
             \div Len(LastN(S.imbalances, window))

\* a slope that is returned with exactly lookback samples
GetCvdSlopeEarly(S, lookback) ==
    IF S.cvd_history = <<>> \/ Len(S.cvd_history) < lookback THEN None
    ELSE S.cvd_history[Len(S.cvd_history)]
            - S.cvd_history[Max(1, Len(S.cvd_history) - lookback)]

\* MarketStats.get_cvd_slope(lookback)
GetCvdSlope(S, lookback) ==
    IF Len(S.cvd_history) <= lookback THEN None
    ELSE S.cvd_history[Len(S.cvd_history)]
            - S.cvd_history[Len(S.cvd_history) - lookback]

\* MarketStats.get_volume_normalized(lookback)
GetVolumeNormalized(S, lookback) ==
    IF Len(S.volumes) < VOL_NORM_MIN_SAMPLES THEN None
    ELSE LET recent == IF Len(S.volumes) >= lookback
                       THEN LastN(S.volumes, lookback) ELSE S.volumes
         IN IF Len(recent) < 2 THEN None
            ELSE IF MaxSeq(recent) <= MinSeq(recent) THEN PCT_DEN \div 2
            ELSE Max(0, Min(PCT_DEN,
                     ((recent[Len(recent)] - MinSeq(recent)) * PCT_DEN)
                         \div (MaxSeq(recent) - MinSeq(recent))))

\* ------------------------------------------------------------ the callers
\* Two of config.SYMBOLS, each with its own loop
Symbols == {"btcusdt", "ethusdt"}

\* Bounds of the model
T0 == 172700
MaxOpens == 2
MaxOpensLife == 1
MaxOpensDay == 1
MaxOpensHour == 11
MaxOpensGate == 3
MaxIdleHour == 1
MaxImbCount == 5

\* Spec: two loops.  T0 is 100 s before a UTC midnight.
Times == {T0, T0 + 5}
\* <<price, imbalance, vol_norm>> of a tick
TickInputs == {<<9970, 0, None>>, <<10000, 0, None>>, <<10025, 0, None>>}
\* <<price, recent_extreme_price, signal.risk_mult in tenths, side>> of an open
OpenInputs == {<<10000, 10000, 16, "LONG">>, <<10000, 10000, 40, "SHORT">>,
               <<10000, 10004, 16, "LONG">>, <<9992, 10000, 10, "LONG">>}

\* SpecLife: one loop, the life of one position
LifeSymbols == {"ethusdt"}
LifeTimes == {T0, T0 + 5, T0 + 300}
LifeTickInputs == {<<9970, 0, None>>, <<9990, 0 - 10000, None>>,
                   <<10000, 0, 9000>>, <<10010, 10000, None>>,
                   <<10022, 0, None>>, <<10025, 0, None>>, <<10040, 0, None>>,
                   <<10070, 0, None>>}
LifeOpenInputs == {<<10000, 10000, 10, "LONG">>, <<10000, 9980, 16, "LONG">>,
                   <<10000, 10058, 10, "LONG">>, <<10000, 10000, 10, "SHORT">>,
                   <<10000, 10058, 16, "SHORT">>}

\* SpecExit: one position whose exit conditions hold together.  At T0 + 300
\* the high-volatility lifetime is over; 99.70 is below the stop, 99.90 is ten
\* ticks adverse, 100.70 is above the target.
MaxOpensExit == 1
ExitTimes == {T0, T0 + 5, T0 + 300}
ExitTickInputs == {<<9970, 0 - 10000, 9000>>, <<9990, 0 - 10000, 9000>>,
                   <<9990, 0 - 10000, None>>, <<10000, 0, 9000>>,
                   <<10025, 0, None>>, <<10070, 0, 9000>>}
ExitOpenInputs == {<<10000, 9980, 16, "LONG">>, <<10000, 10020, 16, "SHORT">>}

\* SpecTime: one position held at a steady price for 5 s to 605 s, around
\* both lifetime limits, with the normalized volume below, at and above
\* VOL_NORM_HIGH_THRESHOLD or unavailable; 99.60 is below the stop
MaxOpensTime == 1
TimeTimes == {T0, T0 + 5, T0 + 300, T0 + 305, T0 + 605}
TimeTickInputs == {<<10000, 0, None>>, <<10000, 0, 2000>>, <<10000, 0, 6999>>,
                   <<10000, 0, 7000>>, <<10000, 0, 9000>>, <<9960, 0, 9000>>}
TimeOpenInputs == {<<10000, 9980, 16, "LONG">>, <<10000, 10020, 16, "SHORT">>}

\* SpecSize: two loops; one opens while the position of the other is marked
\* to market at a gain (100.40) or a loss (99.90).  The first open input has a
\* stop wide enough for the quantity to come from the risk, the second is
\* cut by the margin
MaxOpensSize == 2
SizeTimes == {T0, T0 + 5}
SizeTickInputs == {<<9990, 0, None>>, <<10000, 0, None>>, <<10040, 0, None>>}
SizeOpenInputs == {<<10000, 9980, 16, "LONG">>, <<10000, 10000, 10, "LONG">>}

\* SpecEpoch: one loop whose timestamps start at the epoch; 100.25 closes a
\* position at its target
MaxOpensEpoch == 2
EpochTimes == {0, 3, 5, 8, 10}
EpochTickInputs == {<<10000, 0, None>>, <<10025, 0, None>>}
EpochOpenInputs == {<<10000, 10000, 10, "LONG">>, <<10000, 10000, 10, "SHORT">>}

\* SpecDay: two loops over day and year boundaries.  T0 + 300 is the next UTC
\* day, T0 + 365 days is the same day of the next year.
DayTimes == {T0, T0 + 300, T0 + 365 * DAY_SEC}
DayTickInputs == {<<9970, 0, None>>, <<10000, 0, None>>}
DayOpenInputs == {<<10000, 10000, 10, "LONG">>, <<10000, 10004, 10, "LONG">>}

\* SpecGate: two loops on one UTC day, stops wide enough for one loss to
\* reach the daily loss limit
GateTimes == {T0, T0 + 5}
GateTickInputs == {<<9970, 0, None>>, <<10070, 0, None>>}
GateOpenInputs == {<<10000, 9980, 16, "LONG">>}

\* SpecHour: one loop trading every 5 s, then an hour later.  At most
\* MaxIdleHour of the earlier time points pass without an open.
HourTimes == {T0 + 5 * k : k \in 0..9} \cup {T0 + HOUR_SEC - 5, T0 + HOUR_SEC}
HourTickInputs == {<<10025, 0, None>>}
HourOpenInputs == {<<10000, 10000, 10, "LONG">>}

\* a record of _close_full (every label but the partial's)
IsFullClose(tr) == tr.reason # "TP1_FAST"

RECURSIVE SumLen(_, _)
SumLen(f, S) ==
    IF S = {} THEN 0
    ELSE LET k == CHOOSE x \in S : TRUE IN Len(f[k]) + SumLen(f, S \ {k})
\* the number of positions opened so far
NumOpened == SumLen(opened, DOMAIN opened)

\* self.<field> = ... for every field of the portfolio
Store(P) ==
    /\ balance' = P.balance
    /\ equity' = P.equity
    /\ positions' = P.positions
    /\ trade_history' = P.trade_history
    /\ current_day' = P.current_day
    /\ start_of_day_balance' = P.start_of_day_balance
    /\ trades_today' = P.trades_today
    /\ last_exit_ts' = P.last_exit_ts
    /\ trades_last_hour' = P.trades_last_hour

\* nothing was given to a MarketStats yet
NothingFed == [prices |-> <<>>, cvd |-> <<>>, imbalances |-> <<>>,
               returns |-> <<>>, volumes |-> <<>>]

\* what the getters return on an empty MarketStats
NoMetrics == [n |-> 0, vol |-> None, smooth_imb |-> None, cvd_slope |-> None,
              vol_norm |-> None, price |-> 0, price_past |-> 0]

\* no getter was called since the last update
NotCalled == [called |-> FALSE, symbol |-> "", n_points |-> 0, window |-> 0,
              lookback |-> 0, vol_lookback |-> 0, vol |-> None,
              smooth_imb |-> None, cvd_slope |-> None, vol_norm |-> None]

\* run_symbol_loop before its first snapshot: the stream it will read, the
\* number of snapshots consumed, the sum of its CVDCalculator, kill_until_ts
\* and prev_vol, and the log of what each of its iterations did
LoopLocals == [feed |-> "", n |-> 0, cvd |-> 0, kill_until_ts |-> 0,
               prev_vol |-> None, seen |-> <<>>]

\* GlobalPortfolio.__init__, before any loop has run
Init ==
    /\ balance = INITIAL_BALANCE
    /\ equity = INITIAL_BALANCE
    /\ positions = <<>>
    /\ trade_history = <<>>
    /\ current_day = None
    /\ start_of_day_balance = INITIAL_BALANCE
    /\ trades_today = 0
    /\ last_exit_ts = <<>>
    /\ trades_last_hour = <<>>
    /\ clock = [s \in Symbols |-> 0]
    /\ opened = [s \in Symbols |-> <<>>]
    /\ gate_day = None
    /\ last = [op |-> "init", symbol |-> "", args |-> <<>>, ret |-> "",
               guard |-> "", n_closed |-> 0, closed |-> <<>>]
    /\ scored = [symbol |-> "", ret |-> <<>>, raised |-> FALSE,
                 m |-> [n |-> 0, vol |-> None, smooth_imb |-> None,
                        cvd_slope |-> None, vol_norm |-> None,
                        price |-> 0, price_past |-> 0]]
    /\ book = [called |-> FALSE, bids |-> <<>>, asks |-> <<>>, ret |-> <<0, 1>>]
    /\ stats = [s \in Symbols |-> EmptyStats(VOL_WINDOW_SIZE)]
    /\ fed = [s \in Symbols |-> NothingFed]
    /\ loop = [s \in Symbols |-> LoopLocals]
    /\ got = NotCalled

\* one call portfolio.on_price_tick(symbol, ts, price, vol, imbalance, vol_norm);
\* the model stops feeding adverse samples once invalid_imb_count is MaxImbCount
OnPriceTick(symbol, ts, price, imbalance, vol_norm) ==
    /\ ts >= clock[symbol]
    /\ LET r == OnPriceTickCall(Self, symbol, ts, price, imbalance, vol_norm)
       IN /\ symbol \in DOMAIN r.pf.positions
                => r.pf.positions[symbol].invalid_imb_count <= MaxImbCount
          /\ Store(r.pf)
          /\ last' = [op |-> "tick", symbol |-> symbol,
                      args |-> <<price, imbalance, vol_norm>>, ret |-> "list",
                      guard |-> "", n_closed |-> Len(r.closed),
                      closed |-> [i \in DOMAIN r.closed |-> r.closed[i].reason]]
    /\ clock' = [clock EXCEPT ![symbol] = ts]
    /\ UNCHANGED <<opened, gate_day, scored, book, market_vars>>

\* one call portfolio.open_position(symbol, ts, price, signal, recent_extreme_price,
\* entry_imbalance, side); the model stops opening after max_opens positions
OpenPosition(symbol, ts, price, risk_mult, recent_extreme_price, side, max_opens) ==
    /\ ts >= clock[symbol]
    /\ LET r == OpenPositionCall(Self, symbol, ts, price, risk_mult,
                                 recent_extreme_price, side)
       IN /\ r.ret = "pos" => NumOpened < max_opens
          /\ Store(r.pf)
          /\ opened' = IF r.ret = "pos"
                       THEN [opened EXCEPT ![symbol] = Append(@, ts)]
                       ELSE opened
          /\ gate_day' = IF r.guard = "daily" THEN UtcDay(ts) ELSE gate_day
          /\ last' = [op |-> "open", symbol |-> symbol,
                      args |-> <<price, recent_extreme_price, risk_mult, side>>,
                      ret |-> r.ret, guard |-> r.guard, n_closed |-> 0,
                      closed |-> <<>>]
    /\ clock' = [clock EXCEPT ![symbol] = ts]
    /\ UNCHANGED <<scored, book, market_vars>>

Next ==
    \E symbol \in Symbols, ts \in Times :
        \/ \E t \in TickInputs : OnPriceTick(symbol, ts, t[1], t[2], t[3])
        \/ \E o \in OpenInputs :
              OpenPosition(symbol, ts, o[1], o[3], o[2], o[4], MaxOpens)

Spec == Init /\ [][Next]_vars

NextLife ==
    \E symbol \in LifeSymbols, ts \in LifeTimes :
        \/ \E t \in LifeTickInputs : OnPriceTick(symbol, ts, t[1], t[2], t[3])
        \/ \E o \in LifeOpenInputs :
              OpenPosition(symbol, ts, o[1], o[3], o[2], o[4], MaxOpensLife)

SpecLife == Init /\ [][NextLife]_vars

NextExit ==
    \E symbol \in LifeSymbols, ts \in ExitTimes :
        \/ \E t \in ExitTickInputs : OnPriceTick(symbol, ts, t[1], t[2], t[3])
        \/ \E o \in ExitOpenInputs :
              OpenPosition(symbol, ts, o[1], o[3], o[2], o[4], MaxOpensExit)

SpecExit == Init /\ [][NextExit]_vars

NextTime ==
    \E symbol \in LifeSymbols, ts \in TimeTimes :
        \/ \E t \in TimeTickInputs : OnPriceTick(symbol, ts, t[1], t[2], t[3])
        \/ \E o \in TimeOpenInputs :
              OpenPosition(symbol, ts, o[1], o[3], o[2], o[4], MaxOpensTime)

SpecTime == Init /\ [][NextTime]_vars

\* the stream of symbol has a timestamp at or beyond the entry of its position
\* plus the low-volatility lifetime: a late tick can happen
LateTickAhead(s) ==
    /\ s \in DOMAIN positions
    /\ \E ts \in TimeTimes :
          ts - positions[s].entry_ts >= MAX_TRADE_LIFETIME_LOW_VOL_SEC

\* the step is an on_price_tick of the loop of s, which holds a position, at
\* such a timestamp
LateTick(s) ==
    /\ s \in DOMAIN positions
    /\ last'.op = "tick" /\ last'.symbol = s
    /\ clock'[s] - positions[s].entry_ts >= MAX_TRADE_LIFETIME_LOW_VOL_SEC

\* SpecTime with snapshots that keep arriving: the loop passes every snapshot
\* of its stream to on_price_tick, so a late tick that stays possible happens.
\* This is weak fairness of the late tick, with its enabling condition
\* written out as LateTickAhead.
SpecTimeLive ==
    /\ Init
    /\ [][NextTime]_vars
    /\ \A s \in LifeSymbols :
          []<>(~LateTickAhead(s)) \/ []<><<LateTick(s)>>_vars

NextSize ==
    \E symbol \in Symbols, ts \in SizeTimes :
        \/ \E t \in SizeTickInputs : OnPriceTick(symbol, ts, t[1], t[2], t[3])
        \/ \E o \in SizeOpenInputs :
              OpenPosition(symbol, ts, o[1], o[3], o[2], o[4], MaxOpensSize)

SpecSize == Init /\ [][NextSize]_vars

NextEpoch ==
    \E symbol \in LifeSymbols, ts \in EpochTimes :
        \/ \E t \in EpochTickInputs : OnPriceTick(symbol, ts, t[1], t[2], t[3])
        \/ \E o \in EpochOpenInputs :
              OpenPosition(symbol, ts, o[1], o[3], o[2], o[4], MaxOpensEpoch)

SpecEpoch == Init /\ [][NextEpoch]_vars

NextDay ==
    \E symbol \in Symbols, ts \in DayTimes :
        \/ \E t \in DayTickInputs : OnPriceTick(symbol, ts, t[1], t[2], t[3])
        \/ \E o \in DayOpenInputs :
              OpenPosition(symbol, ts, o[1], o[3], o[2], o[4], MaxOpensDay)

SpecDay == Init /\ [][NextDay]_vars

NextGate ==
    \E symbol \in Symbols, ts \in GateTimes :
        \/ \E t \in GateTickInputs : OnPriceTick(symbol, ts, t[1], t[2], t[3])
        \/ \E o \in GateOpenInputs :
              OpenPosition(symbol, ts, o[1], o[3], o[2], o[4], MaxOpensGate)

SpecGate == Init /\ [][NextGate]_vars

HourIdleOk(ts) == Cardinality({t \in HourTimes : t < ts}) <= NumOpened + MaxIdleHour

NextHour ==
    \E symbol \in LifeSymbols, ts \in {t \in HourTimes : HourIdleOk(t)} :
        \/ \E t \in HourTickInputs : OnPriceTick(symbol, ts, t[1], t[2], t[3])
        \/ \E o \in HourOpenInputs :
              OpenPosition(symbol, ts, o[1], o[3], o[2], o[4], MaxOpensHour)

SpecHour == Init /\ [][NextHour]_vars


\* ---- the scorer's inputs
\* the lengths of the MarketStats windows the model draws
StatLens == {7, 49, 61}
CvdSlopes == {-100, -30, 5, 30, 100}
\* 13/21 = 1300, 1264 and 67/105 = 1340 put the combined scores on a tie, on
\* 89 and on 90 points
SmoothImbs == {-2100, -1300, 0, 840, 1264, 1340, 2100}
VolNorms == {2000, 5000, 9000}
Vols == {4, 20}
ScorePrice == 10000
PastPrices == {9979, 10020}

\* what the getters of MarketStats return with n samples in the windows:
\* get_volatility needs VOL_RET_LOOKBACK returns (one fewer than prices),
\* get_cvd_slope more than 7 cvd samples, get_volume_normalized 20 volumes
Metrics ==
    { m \in [n : StatLens, vol : Vols \cup {None}, smooth_imb : SmoothImbs,
             cvd_slope : CvdSlopes \cup {None}, vol_norm : VolNorms \cup {None},
             price : {ScorePrice}, price_past : PastPrices] :
        /\ m.vol # None => m.n > VOL_RET_LOOKBACK
        /\ m.cvd_slope # None <=> m.n > 7
        /\ m.vol_norm # None <=> m.n >= 20 }

\* one call strategy.generate_signal(ts, price, imbalance) of an instrument loop
GenerateSignalCall(symbol, m) ==
    /\ scored' = [symbol |-> symbol, m |-> m, ret |-> GenerateSignal(symbol, m),
                  raised |-> GenerateSignalRaises(m)]
    /\ UNCHANGED <<portfolio_vars, book, market_vars>>

NextScore ==
    \E symbol \in LifeSymbols, m \in Metrics : GenerateSignalCall(symbol, m)

SpecScore == Init /\ [][NextScore]_vars

\* ---- the order books
\* the quantities of the levels of one side, best level first
SideQtys == {<<>>, <<0>>, <<1>>, <<3>>, <<1, 3>>, <<3, 1>>, <<0, 0, 0, 0, 0>>,
             <<0, 0, 0, 0, 0, 3>>, <<1, 1, 1, 1, 1>>, <<1, 1, 1, 1, 1, 3>>,
             <<3, 3, 3, 3, 3, 1>>}
BookMid == 10000
\* bids below the mid price, asks above it, one point apart
BidSide(qtys) == [i \in DOMAIN qtys |-> <<BookMid - i, qtys[i]>>]
AskSide(qtys) == [i \in DOMAIN qtys |-> <<BookMid + i, qtys[i]>>]

\* one call order_book_imbalance(snapshot.order_book.bids, snapshot.order_book.asks)
OrderBookImbalanceCall(bids, asks) ==
    /\ book' = [called |-> TRUE, bids |-> bids, asks |-> asks,
                ret |-> OrderBookImbalance(bids, asks)]
    /\ UNCHANGED <<portfolio_vars, scored, market_vars>>

NextBook ==
    \E b \in SideQtys, a \in SideQtys :
        OrderBookImbalanceCall(BidSide(b), AskSide(a))

SpecBook == Init /\ [][NextBook]_vars

\* ---- MarketStats on its own
StatsWindow == 3
MaxFree == 3
MaxUpdates == 62
\* <<price, cvd, imbalance, volume>> of the first MaxFree updates
FreeUpdates == {<<10000, 5, 0, 1>>, <<10030, 7, 1680, 4>>,
                <<0, 0 - 3, 0 - 2100, 0>>, <<9990, 7, 840, 9>>}
\* the k-th update after them
RampUpdate(k) == <<10000 + k, 10 * k, 21 * (k % 5), k % 7>>
UpdatesAt(k) == IF k <= MaxFree THEN FreeUpdates ELSE {RampUpdate(k)}

\* stats = MarketStats(window_size), before its first update
NewMarketStats(symbol, window_size) ==
    /\ fed[symbol] = NothingFed
    /\ stats[symbol].window_size # window_size
    /\ stats' = [stats EXCEPT ![symbol] = EmptyStats(window_size)]
    /\ UNCHANGED <<portfolio_vars, scored, book, fed, loop, got>>

\* what update gives to the windows, appended to the log of the symbol
Feed(F, S, price, cvd, imbalance, volume) ==
    [F EXCEPT !.prices = Append(@, price), !.cvd = Append(@, cvd),
              !.imbalances = Append(@, imbalance),
              !.volumes = Append(@, volume),
              !.returns = IF HasReturn(S)
                          THEN Append(@, ReturnOf(S.prices[Len(S.prices)], price))
                          ELSE @]

\* one call stats.update(price, cvd, imbalance, volume)
StatsUpdateCall(symbol, price, cvd, imbalance, volume) ==
    /\ stats' = [stats EXCEPT
                    ![symbol] = StatsUpdate(@, price, cvd, imbalance, volume)]
    /\ fed' = [fed EXCEPT
                  ![symbol] = Feed(@, stats[symbol], price, cvd, imbalance, volume)]
    /\ got' = NotCalled
    /\ UNCHANGED <<portfolio_vars, scored, book, loop>>

\* <<n_points, window, lookback, lookback>> of get_volatility,
\* get_smooth_imbalance, get_cvd_slope and get_volume_normalized: what
\* run_symbol_loop passes, and small values
GetterArgs == {<<VOL_RET_LOOKBACK, SMOOTH_IMB_WINDOW, CVD_SLOPE_LOOKBACK,
                 VOL_NORM_LOOKBACK>>,
               <<1, 1, 0, 2>>, <<2, 4, 1, 20>>, <<0, 2, 3, 21>>}

\* the four getters called on the MarketStats of a symbol
GettersCall(symbol, n_points, window, lookback, vol_lookback) ==
    /\ got' = [called |-> TRUE, symbol |-> symbol, n_points |-> n_points,
               window |-> window, lookback |-> lookback,
               vol_lookback |-> vol_lookback,
               vol |-> GetVolatility(stats[symbol], n_points),
               smooth_imb |-> GetSmoothImbalance(stats[symbol], window),
               cvd_slope |-> GetCvdSlope(stats[symbol], lookback),
               vol_norm |-> GetVolumeNormalized(stats[symbol], vol_lookback)]
    /\ UNCHANGED <<portfolio_vars, scored, book, stats, fed, loop>>

NextStats ==
    \E symbol \in LifeSymbols :
        \/ NewMarketStats(symbol, StatsWindow)
        \/ \E a \in GetterArgs : GettersCall(symbol, a[1], a[2], a[3], a[4])
        \/ /\ Len(fed[symbol].prices) < MaxUpdates
           /\ \E u \in UpdatesAt(Len(fed[symbol].prices) + 1) :
                 StatsUpdateCall(symbol, u[1], u[2], u[3], u[4])

SpecStats == Init /\ [][NextStats]_vars

\* ---- the strategy, snapshot by snapshot
MaxTicks == 63
\* the snapshot at which the price of a stream moves
JumpTick == 57
ZeroTick == 58
Feeds == {"flat", "bull", "jump", "zero"}
\* every stream but "flat" has buys of 18 each snapshot after one that trades
\* 20 (a cvd slope of 126 over 7 snapshots, a normalized volume of 0.9) and
\* 19 against 1 in the book (an imbalance of 0.9)
FeedPrice(feed, k) ==
    IF feed = "jump" /\ k >= JumpTick THEN 10030
    ELSE IF feed = "zero" /\ k = ZeroTick THEN 0
    ELSE 10000
FeedBids(feed, k) == IF feed = "flat" THEN <<5>> ELSE <<19>>
FeedAsks(feed, k) == IF feed = "flat" THEN <<5>> ELSE <<1>>
\* the trades of a snapshot, each <<is_buy, qty>>
FeedTrades(feed, k) ==
    IF feed = "flat" \/ k = 1 THEN <<>>
    ELSE IF k = 2 THEN <<<<TRUE, 15>>, <<FALSE, 5>>>>
    ELSE <<<<TRUE, 12>>, <<TRUE, 6>>>>

\* delta of CVDCalculator.update_from_trades
RECURSIVE TradesDelta(_)
TradesDelta(trades) ==
    IF trades = <<>> THEN 0
    ELSE (IF Head(trades)[1] THEN Head(trades)[2] ELSE 0 - Head(trades)[2])
             + TradesDelta(Tail(trades))
\* period_volume = sum(t.qty for t in snapshot.trades)
RECURSIVE TradesVolume(_)
TradesVolume(trades) ==
    IF trades = <<>> THEN 0 ELSE Head(trades)[2] + TradesVolume(Tail(trades))

\* the float order_book_imbalance returns, in 1/SIMB_DEN
ImbalanceOf(bids, asks) ==
    (OrderBookImbalance(bids, asks)[1] * SIMB_DEN)
        \div OrderBookImbalance(bids, asks)[2]

\* what generate_signal reads: the four getters on its MarketStats, the
\* price of the call and self.stats.prices[-ANTI_CHASE_LOOKBACK_TICKS]
MetricsOf(S, price) ==
    [n |-> Len(S.prices),
     vol |-> GetVolatility(S, VOL_RET_LOOKBACK),
     smooth_imb |-> GetSmoothImbalance(S, SMOOTH_IMB_WINDOW),
     cvd_slope |-> GetCvdSlope(S, CVD_SLOPE_LOOKBACK),
     vol_norm |-> GetVolumeNormalized(S, VOL_NORM_LOOKBACK),
     price |-> price,
     price_past |-> IF Len(S.prices) >= ANTI_CHASE_LOOKBACK_TICKS
                    THEN S.prices[Len(S.prices) - ANTI_CHASE_LOOKBACK_TICKS + 1]
                    ELSE 0]

\* connector = BinanceConnector(symbol, ...): the stream the loop will read
StartFeed(symbol, feed) ==
    /\ loop[symbol].feed = ""
    /\ loop' = [loop EXCEPT ![symbol].feed = feed]
    /\ UNCHANGED <<portfolio_vars, scored, book, stats, fed, got>>

\* the MarketStats of the loop after stats.update on its next snapshot
StatsAfter(symbol, price, cvd, imbalance, volume) ==
    StatsUpdate(stats[symbol], price, cvd, imbalance, volume)

\* one snapshot through cvd_calc.update_from_trades, order_book_imbalance,
\* stats.update and strategy.generate_signal, in the order of run_symbol_loop;
\* an exception of generate_signal ends the loop
SnapshotOn(symbol, price, cvd, imbalance, volume) ==
    /\ stats' = [stats EXCEPT
                    ![symbol] = StatsAfter(symbol, price, cvd, imbalance, volume)]
    /\ fed' = [fed EXCEPT
                  ![symbol] = Feed(@, stats[symbol], price, cvd, imbalance, volume)]
    /\ loop' = [loop EXCEPT ![symbol].n = @ + 1, ![symbol].cvd = cvd]
    /\ scored' = [symbol |-> symbol,
                  m |-> MetricsOf(StatsAfter(symbol, price, cvd, imbalance, volume),
                                  price),
                  ret |-> GenerateSignal(symbol,
                              MetricsOf(StatsAfter(symbol, price, cvd, imbalance,
                                                   volume), price)),
                  raised |-> GenerateSignalRaises(
                              MetricsOf(StatsAfter(symbol, price, cvd, imbalance,
                                                   volume), price))]
    /\ got' = NotCalled
    /\ UNCHANGED <<portfolio_vars, book>>

SnapshotStep(symbol) ==
    /\ loop[symbol].feed # ""
    /\ loop[symbol].n < MaxTicks
    /\ ~(scored.symbol = symbol /\ scored.raised)
    /\ SnapshotOn(symbol,
                  FeedPrice(loop[symbol].feed, loop[symbol].n + 1),
                  loop[symbol].cvd
                      + TradesDelta(FeedTrades(loop[symbol].feed, loop[symbol].n + 1)),
                  ImbalanceOf(BidSide(FeedBids(loop[symbol].feed, loop[symbol].n + 1)),
                              AskSide(FeedAsks(loop[symbol].feed, loop[symbol].n + 1))),
                  TradesVolume(FeedTrades(loop[symbol].feed, loop[symbol].n + 1)))

NextFeed ==
    \E symbol \in LifeSymbols :
        \/ \E feed \in Feeds : StartFeed(symbol, feed)
        \/ SnapshotStep(symbol)

SpecFeed == Init /\ [][NextFeed]_vars

\* ---- run_symbol_loop, one whole iteration per snapshot
KILL_SWITCH_VOL_MULTIPLIER == 4
KILL_SWITCH_COOLDOWN_SEC == 900
\* config.ALLOWED_SESSIONS: one session, 00:00 to 23:59, in minutes of the day
ALLOWED_SESSIONS == <<<<0, 23 * 60 + 59>>>>

\* is_in_allowed_session(ts, ALLOWED_SESSIONS)
IsInAllowedSession(ts) ==
    LET cur_min == ((ts % DAY_SEC) \div HOUR_SEC) * 60 + (ts % HOUR_SEC) \div 60
    IN \E i \in DOMAIN ALLOWED_SESSIONS :
          ALLOWED_SESSIONS[i][1] <= cur_min /\ cur_min <= ALLOWED_SESSIONS[i][2]

\* a spike test that takes a previous volatility of zero as well
VolSpikeFromZero(vol, prev_vol) ==
    vol # None /\ prev_vol # None /\ vol >= prev_vol * KILL_SWITCH_VOL_MULTIPLIER

\* the kill switch for absolute volatility of run_symbol_loop
VolAboveMax(vol) == vol # None /\ vol > VOLATILITY_MAX

\* the kill switch for a volatility spike of run_symbol_loop
VolSpike(vol, prev_vol) ==
    /\ vol # None /\ prev_vol # None /\ prev_vol > 0
    /\ vol >= prev_vol * KILL_SWITCH_VOL_MULTIPLIER

\* kill_until_ts after the two kill-switch tests of one iteration
KillUntil(L, ts, vol) ==
    IF VolAboveMax(vol) \/ VolSpike(vol, L.prev_vol)
    THEN ts + KILL_SWITCH_COOLDOWN_SEC
    ELSE L.kill_until_ts

\* prev_vol after the iteration
PrevVol(L, vol) == IF vol # None THEN vol ELSE L.prev_vol

\* the float imbalance of the loop (held in 1/SIMB_DEN) as the portfolio
\* compares it with its thresholds (in 1/PCT_DEN)
ImbalanceAsFraction(imbalance) ==
    IF imbalance = None THEN None ELSE (imbalance * PCT_DEN) \div SIMB_DEN

\* a loop that hands the smoothed imbalance to on_price_tick
TickImbalanceSmoothed(imbalance, m) == ImbalanceAsFraction(m.smooth_imb)

\* the imbalance argument of the loop's portfolio.on_price_tick call
TickImbalance(imbalance, m) == ImbalanceAsFraction(imbalance)

\* GlobalPortfolio.has_open_position
HasOpenPosition(P, symbol) == symbol \in DOMAIN P.positions

\* an entry block that does not look at kill_until_ts
SignalOfNoKill(symbol, ts, kill_until_ts, P, m) ==
    IF IsInAllowedSession(ts) /\ ~HasOpenPosition(P, symbol)
    THEN [evaluated |-> TRUE, signal |-> GenerateSignal(symbol, m),
          raised |-> GenerateSignalRaises(m)]
    ELSE [evaluated |-> FALSE, signal |-> <<>>, raised |-> FALSE]

\* the entry block of the iteration: whether generate_signal is called, what
\* it returns and whether it raises
SignalOf(symbol, ts, kill_until_ts, P, m) ==
    IF ts >= kill_until_ts /\ IsInAllowedSession(ts) /\ ~HasOpenPosition(P, symbol)
    THEN [evaluated |-> TRUE, signal |-> GenerateSignal(symbol, m),
          raised |-> GenerateSignalRaises(m)]
    ELSE [evaluated |-> FALSE, signal |-> <<>>, raised |-> FALSE]

\* no open_position call in the iteration
NotAttempted(P) == [pf |-> P, ret |-> "skip", guard |-> ""]

\* what the iteration did, for the log of the loop
Seen(ts, imbalance, m, tick, sg, r, had_position) ==
    [ts |-> ts, vol |-> m.vol, smooth_imb |-> m.smooth_imb,
     tick_imbalance |-> TickImbalance(imbalance, m),
     had_position |-> had_position, n_closed |-> Len(tick.closed),
     evaluated |-> sg.evaluated, attempted |-> r.ret # "skip"]

\* the end of the iteration: the portfolio after the calls, the locals
LoopStore(symbol, ts, price, cvd, imbalance, volume, m, kill_until_ts, tick, sg, r) ==
    /\ Store(r.pf)
    /\ clock' = [clock EXCEPT ![symbol] = ts]
    /\ opened' = IF r.ret = "pos"
                 THEN [opened EXCEPT ![symbol] = Append(@, ts)]
                 ELSE opened
    /\ gate_day' = IF r.guard = "daily" THEN UtcDay(ts) ELSE gate_day
    /\ last' = IF r.ret # "skip"
               THEN [op |-> "open", symbol |-> symbol,
                     args |-> <<price, price, sg.signal[1].risk_mult,
                                sg.signal[1].side>>,
                     ret |-> r.ret, guard |-> r.guard, n_closed |-> 0,
                     closed |-> <<>>]
               ELSE [op |-> "tick", symbol |-> symbol,
                     args |-> <<price, TickImbalance(imbalance, m), m.vol_norm>>,
                     ret |-> "list", guard |-> "", n_closed |-> Len(tick.closed),
                     closed |-> [i \in DOMAIN tick.closed |-> tick.closed[i].reason]]
    /\ scored' = IF sg.evaluated
                 THEN [symbol |-> symbol, m |-> m, ret |-> sg.signal,
                       raised |-> sg.raised]
                 ELSE scored
    /\ stats' = [stats EXCEPT
                    ![symbol] = StatsAfter(symbol, price, cvd, imbalance, volume)]
    /\ fed' = [fed EXCEPT
                  ![symbol] = Feed(@, stats[symbol], price, cvd, imbalance, volume)]
    /\ loop' = [loop EXCEPT
                   ![symbol].n = @ + 1,
                   ![symbol].cvd = cvd,
                   ![symbol].kill_until_ts = kill_until_ts,
                   ![symbol].prev_vol = PrevVol(loop[symbol], m.vol),
                   ![symbol].seen =
                        Append(@, Seen(ts, imbalance, m, tick, sg, r,
                                       symbol \in DOMAIN positions))]
    /\ got' = NotCalled
    /\ UNCHANGED book

\* portfolio.open_position(..., recent_extreme_price=price, side=signal.side)
\* if generate_signal returned a signal
LoopOpen(symbol, ts, price, cvd, imbalance, volume, m, kill_until_ts, tick, sg) ==
    LoopStore(symbol, ts, price, cvd, imbalance, volume, m, kill_until_ts, tick, sg,
              IF sg.signal # <<>>
              THEN OpenPositionCall(tick.pf, symbol, ts, price,
                                    sg.signal[1].risk_mult, price, sg.signal[1].side)
              ELSE NotAttempted(tick.pf))

\* the entry block on the portfolio as on_price_tick left it
LoopEntry(symbol, ts, price, cvd, imbalance, volume, m, kill_until_ts, tick) ==
    LoopOpen(symbol, ts, price, cvd, imbalance, volume, m, kill_until_ts, tick,
             SignalOf(symbol, ts, kill_until_ts, tick.pf, m))

\* the kill switches, then portfolio.on_price_tick on every snapshot
LoopManage(symbol, ts, price, cvd, imbalance, volume, m) ==
    LoopEntry(symbol, ts, price, cvd, imbalance, volume, m,
              KillUntil(loop[symbol], ts, m.vol),
              OnPriceTickCall(Self, symbol, ts, price, TickImbalance(imbalance, m),
                              m.vol_norm))

\* one iteration of run_symbol_loop on a snapshot: stats.update and the four
\* getters, the kill switches, on_price_tick, and the entry block
LoopOn(symbol, ts, price, cvd, imbalance, volume) ==
    LoopManage(symbol, ts, price, cvd, imbalance, volume,
               MetricsOf(StatsAfter(symbol, price, cvd, imbalance, volume), price))

\* Bounds of the streams of SpecLoop: snapshots one second apart up to
\* KillTick, then StallSec apart (the stream stalls and resumes)
MaxLoopTicks == 66
KillTick == 62
StallSec == 300
LoopFeeds == {"spike", "crash", "still", "flip", "nudge"}
\* "spike" and "crash" move up 0.3% at JumpTick and fall at KillTick, by 1.3%
\* and by 10%; "still" is flat until it moves up 0.3% at KillTick; "flip"
\* moves up 0.3% at JumpTick and stays; "nudge" moves up one point at
\* JumpTick and six more at KillTick
LoopPrice(feed, k) ==
    IF feed = "nudge"
    THEN (IF k >= KillTick THEN 10007 ELSE IF k >= JumpTick THEN 10001 ELSE 10000)
    ELSE IF k >= KillTick
    THEN (IF feed = "spike" THEN 9900 ELSE IF feed = "crash" THEN 9000 ELSE 10030)
    ELSE IF feed # "still" /\ k >= JumpTick THEN 10030
    ELSE 10000
LoopTs(k) ==
    IF k <= KillTick THEN T0 + k ELSE T0 + KillTick + (k - KillTick) * StallSec
\* the book of "flip" turns from 19 against 1 to 1 against 19 at KillTick
LoopBids(feed, k) == IF feed = "flip" /\ k >= KillTick THEN <<1>> ELSE <<19>>
LoopAsks(feed, k) == IF feed = "flip" /\ k >= KillTick THEN <<19>> ELSE <<1>>

\* the loop of symbol takes the next snapshot of its stream
LoopStep(symbol) ==
    /\ loop[symbol].feed \in LoopFeeds
    /\ loop[symbol].n < MaxLoopTicks
    /\ ~(scored.symbol = symbol /\ scored.raised)
    /\ LoopOn(symbol,
              LoopTs(loop[symbol].n + 1),
              LoopPrice(loop[symbol].feed, loop[symbol].n + 1),
              loop[symbol].cvd + TradesDelta(FeedTrades("bull", loop[symbol].n + 1)),
              ImbalanceOf(BidSide(LoopBids(loop[symbol].feed, loop[symbol].n + 1)),
                          AskSide(LoopAsks(loop[symbol].feed, loop[symbol].n + 1))),
              TradesVolume(FeedTrades("bull", loop[symbol].n + 1)))

NextLoop ==
    \E symbol \in LifeSymbols :
        \/ \E feed \in LoopFeeds : StartFeed(symbol, feed)
        \/ LoopStep(symbol)

SpecLoop == Init /\ [][NextLoop]_vars

\* ------------------------------------------------------------ properties
\* what the last call was
IsOpen(l) == l.op = "open"
IsTick(l) == l.op = "tick"
OpenedOk(l) == l.op = "open" /\ l.ret = "pos"
RejectedOpen(l) == l.op = "open" /\ l.ret = "None"

\* the trade records of one instrument, and of one position of it
RecordsOf(symbol) ==
    {i \in DOMAIN trade_history : trade_history[i].symbol = symbol}
FullClosesOf(symbol) ==
    {i \in RecordsOf(symbol) : IsFullClose(trade_history[i])}
RecordsOfPosition(symbol, entry_ts) ==
    {i \in RecordsOf(symbol) : trade_history[i].entry_ts = entry_ts}

\* ---- C1
\* C1: an instrument never has more positions open than one: the opens that
\* succeeded on it, less the full closes recorded for it, is 1 when it has a
\* position and 0 when it has none; and open_position on an instrument that
\* has a position returns None and leaves the positions as they were.
C1_OnePositionPerInstrument ==
    /\ [](\A s \in Symbols :
            Len(opened[s]) - Cardinality(FullClosesOf(s))
                = IF s \in DOMAIN positions THEN 1 ELSE 0)
    /\ [][(IsOpen(last') /\ last'.symbol \in DOMAIN positions)
            => (last'.ret = "None" /\ positions' = positions)]_vars

\* an open was attempted on an instrument holding a position, while the other
\* instrument holds one too
C1_Witness ==
    /\ RejectedOpen(last)
    /\ last.symbol \in DOMAIN positions
    /\ clock[last.symbol] > positions[last.symbol].entry_ts
    /\ DOMAIN positions = Symbols

\* ---- C2
\* the sum of risk_pct over the open positions
OpenRiskSum == SumRiskOver(positions, DOMAIN positions)
\* the risk fraction the last open asked for, from its signal.risk_mult
RequestedBy(l) == (BASE_RISK_PER_TRADE * l.args[3]) \div RISK_MULT_DEN

\* C2: the sum of risk_pct over the open positions never exceeds
\* MAX_TOTAL_RISK_PCT_OPEN; an open made when the headroom (the maximum less
\* that sum) is <= 0 returns None, and a position that is opened carries the
\* requested risk when it fits the headroom and the headroom when it does not.
C2_RiskSumBounded ==
    /\ [](OpenRiskSum <= MAX_TOTAL_RISK_PCT_OPEN)
    /\ [][IsOpen(last') =>
            LET headroom == MAX_TOTAL_RISK_PCT_OPEN - OpenRiskSum IN
            /\ headroom <= 0 => last'.ret = "None"
            /\ last'.ret = "pos" =>
                  positions'[last'.symbol].risk_pct
                      = Min(RequestedBy(last'), headroom)]_vars

\* a request above the headroom was opened with the headroom left by the
\* other instrument's position, and the sum is at the maximum
C2_Witness ==
    /\ OpenedOk(last)
    /\ DOMAIN positions = Symbols
    /\ positions[last.symbol].risk_pct < RequestedBy(last)
    /\ positions[last.symbol].risk_pct > 0
    /\ OpenRiskSum = MAX_TOTAL_RISK_PCT_OPEN

\* ---- C8
\* gross profit at the target < MIN_RR_VS_FEES * (maker fee at the entry
\* price + taker fee at the target price), for a quantity qty
BelowFeeFloor(entry_price, tp_price, qty) ==
    Abs(tp_price - entry_price) * qty * PCT_DEN
        < (entry_price * qty * FEE_MAKER + tp_price * qty * FEE_TAKER)
              * MIN_RR_VS_FEES
\* the stop and the target open_position derives from the arguments of the
\* last open
StopOf(l) == StopPrice(l.args[4], l.args[2])
TargetOf(l) == TargetPrice(l.args[4], l.args[1], StopOf(l))

\* C8: every open position meets the fee floor for the quantity it was sized
\* with; an open whose target is below the floor (for any positive quantity)
\* returns None, opens no position and leaves the balance uncharged.
C8_FeeFloor ==
    /\ [](\A s \in DOMAIN positions :
            ~BelowFeeFloor(positions[s].entry_price, positions[s].tp_price,
                           positions[s].initial_qty))
    /\ [][(IsOpen(last') /\ BelowFeeFloor(last'.args[1], TargetOf(last'), 1))
            => /\ last'.ret = "None"
               /\ positions' = positions
               /\ balance' = balance]_vars

\* an open that passed every earlier guard was turned down at the fee floor
C8_Witness ==
    /\ RejectedOpen(last)
    /\ last.guard = "fees"
    /\ BelowFeeFloor(last.args[1], TargetOf(last), 1)
    /\ StopOf(last) < last.args[1]

\* ---- C9
\* C9: an open of an instrument less than COOLDOWN_AFTER_TRADE_SEC after a
\* full close of that instrument returns None and opens nothing, so every
\* open position was entered at least the cooldown after each full close
\* recorded for its instrument, and never at the timestamp of the tick that
\* closed the previous one.
C9_Cooldown ==
    /\ [](\A s \in DOMAIN positions : \A i \in FullClosesOf(s) :
            positions[s].entry_ts - trade_history[i].exit_ts
                >= COOLDOWN_AFTER_TRADE_SEC)
    /\ [][(/\ IsOpen(last')
           /\ \E i \in FullClosesOf(last'.symbol) :
                 clock'[last'.symbol] - trade_history[i].exit_ts
                     < COOLDOWN_AFTER_TRADE_SEC)
            => (last'.ret = "None" /\ positions' = positions)]_vars

\* an open at the timestamp of the tick that fully closed the instrument's
\* position was turned down
C9_Witness ==
    /\ RejectedOpen(last)
    /\ last.symbol \notin DOMAIN positions
    /\ \E i \in FullClosesOf(last.symbol) :
          trade_history[i].exit_ts = clock[last.symbol]

\* ---- C3
RECURSIVE SumQty(_, _)
\* the quantities of the records of h with an index in S, added up
SumQty(h, S) ==
    IF S = {} THEN 0
    ELSE LET i == CHOOSE n \in S : TRUE
         IN h[i].qty + SumQty(h, S \ {i})
\* the records the step appended for one instrument
NewRecordsOf(symbol) ==
    {i \in (Len(trade_history) + 1)..Len(trade_history') :
        trade_history'[i].symbol = symbol}

\* C3: for every open position the remaining quantity plus the quantities of
\* the records emitted for it is its initial quantity; a tick that removes a
\* position ends with a full-close record for the quantity that remained
\* (the quantity before the tick less what the tick closed partially), and a
\* full-close record is only emitted together with the removal.
C3_QtyConservation ==
    /\ [](\A s \in DOMAIN positions :
            positions[s].qty
              + SumQty(trade_history, RecordsOfPosition(s, positions[s].entry_ts))
                = positions[s].initial_qty)
    /\ [][\A s \in DOMAIN positions :
            LET new == NewRecordsOf(s)
                n == Len(trade_history')
            IN  IF s \in DOMAIN positions'
                THEN \A i \in new : ~IsFullClose(trade_history'[i])
                ELSE /\ n \in new
                     /\ IsFullClose(trade_history'[n])
                     /\ trade_history'[n].qty
                           = positions[s].qty - SumQty(trade_history', new \ {n})
                     /\ trade_history'[n].qty > 0
                     /\ SumQty(trade_history', new)
                          + SumQty(trade_history,
                                   RecordsOfPosition(s, positions[s].entry_ts))
                           = positions[s].initial_qty]_vars

\* a position was closed in full after a partial close: two records of one
\* position, the partial first, and the position is gone
C3_Witness ==
    /\ IsTick(last)
    /\ last.n_closed > 0
    /\ last.symbol \notin DOMAIN positions
    /\ \E i, j \in RecordsOf(last.symbol) :
          /\ i < j
          /\ j = Len(trade_history)
          /\ trade_history[i].entry_ts = trade_history[j].entry_ts
          /\ ~IsFullClose(trade_history[i])
          /\ IsFullClose(trade_history[j])
          /\ trade_history[i].exit_ts < trade_history[j].exit_ts

\* ---- C4
\* C4: no position has two TP1_FAST records, and partial_taken, once set,
\* stays set for as long as the position is open.
C4_PartialOnce ==
    /\ [](\A i, j \in DOMAIN trade_history :
            (/\ trade_history[i].reason = "TP1_FAST"
             /\ trade_history[j].reason = "TP1_FAST"
             /\ trade_history[i].symbol = trade_history[j].symbol
             /\ trade_history[i].entry_ts = trade_history[j].entry_ts)
            => i = j)
    /\ [][\A s \in DOMAIN positions \cap DOMAIN positions' :
            (/\ positions[s].partial_taken
             /\ positions'[s].entry_ts = positions[s].entry_ts)
            => positions'[s].partial_taken]_vars

\* a position whose partial was taken on an earlier tick was ticked again at
\* a price past the partial trigger, and the tick closed nothing
C4_Witness ==
    /\ IsTick(last)
    /\ last.n_closed = 0
    /\ last.symbol \in DOMAIN positions
    /\ positions[last.symbol].partial_taken
    /\ PartialTriggered(positions[last.symbol], last.args[1])
    /\ \E i \in RecordsOfPosition(last.symbol, positions[last.symbol].entry_ts) :
          /\ trade_history[i].reason = "TP1_FAST"
          /\ trade_history[i].exit_ts < clock[last.symbol]

\* ---- C5
\* the stop is at or past the entry price
StopAtOrPastEntry(pos) ==
    IF pos.side = "LONG" THEN pos.sl_price >= pos.entry_price
    ELSE pos.sl_price <= pos.entry_price
\* sl is a looser stop than the position's
Loosened(pos, sl) ==
    IF pos.side = "LONG" THEN sl < pos.sl_price ELSE sl > pos.sl_price

\* C5: once a position's stop is at or past its entry price, no tick loosens
\* it: neither the stop the position is left with nor the stop written to
\* the records the tick emits for it is lower (LONG) or higher (SHORT) than
\* the stop before the tick.
C5_StopMonotonic ==
    [][IsTick(last') =>
        \A s \in DOMAIN positions :
            StopAtOrPastEntry(positions[s]) =>
               /\ s \in DOMAIN positions' =>
                     ~Loosened(positions[s], positions'[s].sl_price)
               /\ \A i \in NewRecordsOf(s) :
                     ~Loosened(positions[s], trade_history'[i].sl_price)]_vars

\* ---- C6
\* the timestamp of the call that led to the state
CallTs(l, c) == c[l.symbol]

\* C6: between two consecutive on_price_tick calls the day counters are reset
\* exactly when the two timestamps lie in different UTC calendar days.
C6_ResetPerDayChange ==
    [][(IsTick(last) /\ IsTick(last'))
        => ((current_day' # current_day)
              <=> (UtcDay(CallTs(last', clock')) # UtcDay(CallTs(last, clock))))]_vars

\* ---- C7
\* C7: an open_position that returns None leaves balance, equity, positions,
\* trade history, day key, start-of-day balance, trades-today, last-exit
\* timestamps and every instrument's hourly list as they were.
C7_RejectedOpenNoMutation ==
    [][RejectedOpen(last')
        => /\ balance' = balance
           /\ equity' = equity
           /\ positions' = positions
           /\ trade_history' = trade_history
           /\ current_day' = current_day
           /\ start_of_day_balance' = start_of_day_balance
           /\ trades_today' = trades_today
           /\ last_exit_ts' = last_exit_ts
           /\ \A s \in Symbols :
                 DictGet(trades_last_hour', s, <<>>)
                     = DictGet(trades_last_hour, s, <<>>)]_vars

\* ---- C10
\* the opens of an instrument at a time t with from <= t < from + HOUR_SEC
OpensInHourFrom(symbol, from) ==
    {j \in DOMAIN opened[symbol] :
        opened[symbol][j] >= from /\ opened[symbol][j] < from + HOUR_SEC}
\* the opens of an instrument in the HOUR_SEC before ts
OpensInTrailingHour(symbol, ts) ==
    {j \in DOMAIN opened[symbol] : ts - opened[symbol][j] < HOUR_SEC}

\* C10: an open of an instrument that already had
\* MAX_TRADES_PER_HOUR_PER_SYMBOL positions opened in the trailing 3600 s
\* returns None and opens nothing, and no window of 3600 s (from a time to
\* less than 3600 s later) holds more than that many opens of one instrument.
C10_HourlyLimit ==
    /\ [](\A s \in DOMAIN opened : \A k \in DOMAIN opened[s] :
            Cardinality(OpensInHourFrom(s, opened[s][k]))
                <= MAX_TRADES_PER_HOUR_PER_SYMBOL)
    /\ [][(/\ IsOpen(last')
           /\ Cardinality(OpensInTrailingHour(last'.symbol, clock'[last'.symbol]))
                 >= MAX_TRADES_PER_HOUR_PER_SYMBOL)
            => (last'.ret = "None" /\ positions' = positions)]_vars

\* an open made past the cooldown, with no position open, was turned down
\* with MAX_TRADES_PER_HOUR_PER_SYMBOL opens in the trailing hour
C10_Witness ==
    /\ RejectedOpen(last)
    /\ last.symbol \notin DOMAIN positions
    /\ Cardinality(OpensInTrailingHour(last.symbol, clock[last.symbol]))
          = MAX_TRADES_PER_HOUR_PER_SYMBOL
    /\ \A i \in FullClosesOf(last.symbol) :
          clock[last.symbol] - trade_history[i].exit_ts >= COOLDOWN_AFTER_TRADE_SEC

\* ---- C11
\* C11: after a daily gate has rejected an open, no open of any instrument
\* succeeds in the same UTC day.
C11_DayStaysClosed ==
    [][OpenedOk(last') => UtcDay(CallTs(last', clock')) # gate_day]_vars

\* ---- C12
\* the prices the loops of the model ever pass to the portfolio
KnownPrices ==
    {t[1] : t \in TickInputs \cup LifeTickInputs \cup DayTickInputs
                    \cup HourTickInputs \cup GateTickInputs}
      \cup {o[1] : o \in OpenInputs \cup LifeOpenInputs \cup DayOpenInputs
                         \cup HourOpenInputs \cup GateOpenInputs}
\* unrealized PnL less the estimated taker exit fee of a position at a price
PositionValue(pos, price) ==
    (IF pos.side = "LONG" THEN (price - pos.entry_price) * pos.qty
                          ELSE (pos.entry_price - price) * pos.qty)
        - (price * pos.qty * FEE_TAKER) \div PCT_DEN
RECURSIVE SumValue(_, _, _)
\* the values of the positions of the instruments in S, each at its price q[s]
SumValue(posns, q, S) ==
    IF S = {} THEN 0
    ELSE LET s == CHOOSE x \in S : TRUE
         IN PositionValue(posns[s], q[s]) + SumValue(posns, q, S \ {s})

\* C12: after every on_price_tick equity is balance plus the value of every
\* open position, the ticked instrument's at the tick price and every other
\* instrument's at some price the portfolio has been given.
C12_EquityAllPositions ==
    [][IsTick(last') =>
        \E q \in [DOMAIN positions' -> KnownPrices] :
            /\ last'.symbol \in DOMAIN positions' => q[last'.symbol] = last'.args[1]
            /\ equity' = balance' + SumValue(positions', q, DOMAIN positions')]_vars

\* ---- C13
RECURSIVE SumRealized(_, _)
\* the realized PnL of the records of h with an index in S, added up
SumRealized(h, S) ==
    IF S = {} THEN 0
    ELSE LET i == CHOOSE n \in S : TRUE
         IN h[i].realized_pnl + SumRealized(h, S \ {i})
\* the records the step appended
NewRecords == (Len(trade_history) + 1)..Len(trade_history')

\* C13: a successful open takes the maker entry fee from balance and nothing
\* else, a tick changes balance by the realized PnL of the records it emits
\* (so not at all when it closes nothing), a rejected open leaves balance
\* alone, and a day rollover sets the start-of-day balance to the balance of
\* that moment without changing balance.
C13_BalanceEvents ==
    [][/\ RejectedOpen(last') => balance' = balance
       /\ OpenedOk(last') =>
             balance' = balance
                 - (last'.args[1] * positions'[last'.symbol].initial_qty * FEE_MAKER)
                       \div PCT_DEN
       /\ IsTick(last') =>
             /\ balance' = balance + SumRealized(trade_history', NewRecords)
             /\ last'.n_closed = 0 => balance' = balance
       /\ (IsOpen(last') \/ IsTick(last')) /\ current_day' # current_day =>
             start_of_day_balance' = balance]_vars

\* the first tick of a new UTC day on an open position closed nothing: the
\* start-of-day balance is the balance, which has paid an entry fee
C13_Witness ==
    /\ IsTick(last)
    /\ last.n_closed = 0
    /\ last.symbol \in DOMAIN positions
    /\ UtcDay(clock[last.symbol]) > UtcDay(positions[last.symbol].entry_ts)
    /\ start_of_day_balance = balance
    /\ balance < INITIAL_BALANCE
    /\ equity # balance

\* ---- C14
\* the stop on_price_tick compares the tick price with: the position's stop
\* after the tick's breakeven and trailing steps
StopInEffect(pos, price) == UpdateTradeManagement(pos, price).sl_price

\* C14: a tick whose price is at or below the stop of the instrument's LONG
\* position emits exactly one record, labeled SL, filled at the stop for the
\* whole remaining quantity, and removes the position; no record of that
\* position follows its SL record.
C14_StopExit ==
    /\ [][\A s \in DOMAIN positions :
            (/\ IsTick(last') /\ last'.symbol = s
             /\ positions[s].side = "LONG"
             /\ last'.args[1] <= StopInEffect(positions[s], last'.args[1]))
            => LET n == Len(trade_history') IN
               /\ NewRecordsOf(s) = {n}
               /\ last'.n_closed = 1
               /\ trade_history'[n].reason = "SL"
               /\ trade_history'[n].exit_price
                     = StopInEffect(positions[s], last'.args[1])
               /\ trade_history'[n].qty = positions[s].qty
               /\ trade_history'[n].entry_ts = positions[s].entry_ts
               /\ s \notin DOMAIN positions']_vars
    /\ [](\A i, j \in DOMAIN trade_history :
            (/\ trade_history[i].reason = "SL"
             /\ trade_history[i].symbol = trade_history[j].symbol
             /\ trade_history[i].entry_ts = trade_history[j].entry_ts)
            => j <= i)

\* the rest of a LONG position whose partial was taken on an earlier tick was
\* stopped out at its trailed stop, above the tick price
C14_Witness ==
    /\ IsTick(last)
    /\ last.n_closed = 1
    /\ last.symbol \notin DOMAIN positions
    /\ LET n == Len(trade_history) IN
       /\ n > 1
       /\ trade_history[n].reason = "SL"
       /\ trade_history[n].side = "LONG"
       /\ trade_history[n].symbol = last.symbol
       /\ trade_history[n].exit_price > last.args[1]
       /\ trade_history[n].exit_price > trade_history[n].entry_price
       /\ \E i \in 1..(n - 1) :
             /\ trade_history[i].reason = "TP1_FAST"
             /\ trade_history[i].entry_ts = trade_history[n].entry_ts

\* ---- C15
\* the step is a tick of s that emits a record with this label
Emits(s, label) ==
    /\ IsTick(last') /\ last'.symbol = s
    /\ \E i \in NewRecordsOf(s) : trade_history'[i].reason = label

\* C15: a position is not closed with INVALID_IMB by any of the first four
\* consecutive adverse samples: when the close comes, four consecutive
\* adverse samples have been counted before the closing one.
C15_FourAdverseNoClose ==
    [][\A s \in DOMAIN positions :
          Emits(s, "INVALID_IMB") => positions[s].invalid_imb_count >= 4]_vars

\* ---- C16
\* the imbalance sample is adverse to the position's side beyond the threshold
AdverseSample(pos, imbalance) ==
    /\ imbalance # None
    /\ IF pos.side = "LONG" THEN imbalance <= 0 - INVALID_IMB_THRESHOLD
       ELSE imbalance >= INVALID_IMB_THRESHOLD
\* the whole ticks of the instrument the price is on the adverse side of entry
AdverseTicksAt(pos, price) ==
    IF TickSizeOf(pos.symbol) <= 0 THEN 0
    ELSE (IF pos.side = "LONG" THEN Max(0, pos.entry_price - price)
          ELSE Max(0, price - pos.entry_price)) \div TickSizeOf(pos.symbol)
\* the sample of the tick counts: it is adverse and the position is old enough
CountedSample(pos, imbalance, ts) ==
    /\ AdverseSample(pos, imbalance)
    /\ ts - pos.entry_ts >= INVALID_IMB_MIN_AGE_SEC

C17_TargetAfterPartial ==
    /\ [][\A s \in DOMAIN positions : \A i \in NewRecordsOf(s) :
            trade_history'[i].reason = "TP"
            => /\ trade_history'[i].exit_price = positions[s].tp_price
               /\ \/ positions[s].partial_taken
                  \/ \E j \in NewRecordsOf(s) :
                        j < i /\ trade_history'[j].reason = "TP1_FAST"]_vars
    /\ [](\A i \in DOMAIN trade_history :
            trade_history[i].reason = "TP"
            => \E j \in 1..(i - 1) :
                  /\ trade_history[j].reason = "TP1_FAST"
                  /\ trade_history[j].symbol = trade_history[i].symbol
                  /\ trade_history[j].entry_ts = trade_history[i].entry_ts)

\* a LONG position whose partial has not been taken was ticked above its
\* target and stays open
C17_Witness ==
    /\ IsTick(last)
    /\ last.n_closed = 0
    /\ last.symbol \in DOMAIN positions
    /\ positions[last.symbol].side = "LONG"
    /\ ~positions[last.symbol].partial_taken
    /\ last.args[1] > positions[last.symbol].tp_price
    /\ positions[last.symbol].tp_price > positions[last.symbol].entry_price

\* ---- C18
\* C18: a tick returns exactly the records it appended to the history, in
\* that order, and at most two of them; when it returns two, the first is
\* the TP1_FAST record and the second the full-close record of the same
\* position, which is removed; a tick of an instrument without a position
\* returns the empty list and appends nothing.
C18_TickReturns ==
    [][IsTick(last') =>
        LET s == last'.symbol
            c == last'.closed
            n == Len(trade_history)
        IN /\ Len(c) <= 2
           /\ Len(trade_history') = n + Len(c)
           /\ \A i \in DOMAIN c :
                 /\ trade_history'[n + i].reason = c[i]
                 /\ trade_history'[n + i].symbol = s
           /\ \A i \in 1..n : trade_history'[i] = trade_history[i]
           /\ Len(c) = 2 =>
                 /\ c[1] = "TP1_FAST"
                 /\ c[2] # "TP1_FAST"
                 /\ trade_history'[n + 1].entry_ts = trade_history'[n + 2].entry_ts
                 /\ s \in DOMAIN positions
                 /\ ~positions[s].partial_taken
                 /\ s \notin DOMAIN positions'
           /\ s \notin DOMAIN positions =>
                 (c = <<>> /\ trade_history' = trade_history)]_vars

\* a tick returned two records, the partial and then the full close of the
\* same position
C18_Witness ==
    /\ IsTick(last)
    /\ Len(last.closed) = 2
    /\ last.closed[1] = "TP1_FAST"
    /\ last.closed[2] = "TP"
    /\ last.symbol \notin DOMAIN positions
    /\ Len(trade_history) >= 2
    /\ trade_history[Len(trade_history)].symbol = last.symbol
    /\ trade_history[Len(trade_history)].reason = "TP"
    /\ trade_history[Len(trade_history) - 1].reason = "TP1_FAST"
    /\ trade_history[Len(trade_history)].exit_ts = clock[last.symbol]
\* ---- C19
\* the latest generate_signal call got past the data, history and anti-chase
\* filters, so that the two combined scores were computed
ScoresComputed ==
    /\ scored.symbol # ""
    /\ IsDataSufficient(scored.m)
    /\ ~IsHistoryInsufficient(scored.m)
    /\ ~AntiChase(scored.m)

\* the combined score of a side in the latest generate_signal call
ScoreOf(side) ==
    IF side = "LONG" THEN Scores(scored.m).long ELSE Scores(scored.m).short

\* the side opposite to side
Opposite(side) == IF side = "LONG" THEN "SHORT" ELSE "LONG"

\* C19: generate_signal returns no signal when the combined long and short
\* scores are equal or both below SCORE_MIN_FOR_CANDIDATE (and none when a
\* filter stopped it before the scores); a returned signal's side is the side
\* whose combined score is at least the candidate minimum and strictly greater
\* than the opposite side's score, and the signal carries that score.
C19_SignalSide ==
    /\ ~ScoresComputed => scored.ret = <<>>
    /\ ScoresComputed =>
          /\ ScoreOf("LONG") = ScoreOf("SHORT") => scored.ret = <<>>
          /\ (/\ ScoreOf("LONG") < Pts(SCORE_MIN_FOR_CANDIDATE)
              /\ ScoreOf("SHORT") < Pts(SCORE_MIN_FOR_CANDIDATE))
                => scored.ret = <<>>
          /\ \A i \in DOMAIN scored.ret :
                /\ scored.ret[i].side \in {"LONG", "SHORT"}
                /\ ScoreOf(scored.ret[i].side) >= Pts(SCORE_MIN_FOR_CANDIDATE)
                /\ ScoreOf(scored.ret[i].side)
                       > ScoreOf(Opposite(scored.ret[i].side))
                /\ scored.ret[i].score = ScoreOf(scored.ret[i].side)

\* a call whose two combined scores tie above the candidate minimum (strong
\* bullish flow against an imbalance of -13/21, volume score 100) and that
\* returned no signal
C19_Witness ==
    /\ ScoresComputed
    /\ ScoreOf("LONG") = ScoreOf("SHORT")
    /\ ScoreOf("LONG") >= Pts(SCORE_MIN_FOR_CANDIDATE)
    /\ scored.ret = <<>>

\* ---- C20
\* C20: a returned signal whose score is exactly SCORE_SNIPER_MIN is classified
\* SNIPER with risk multiplier HIGH_CONV_RISK_MULT, one whose score is one
\* point below it is classified STANDARD with risk multiplier 1.0, and every
\* returned signal has its score in [0, 100] and a risk multiplier >= 1.0.
C20_Classification ==
    \A i \in DOMAIN scored.ret :
        /\ scored.ret[i].score = Pts(SCORE_SNIPER_MIN)
              => /\ scored.ret[i].score_class = "SNIPER"
                 /\ scored.ret[i].risk_mult = HIGH_CONV_RISK_MULT
        /\ scored.ret[i].score = Pts(SCORE_SNIPER_MIN - 1)
              => /\ scored.ret[i].score_class = "STANDARD"
                 /\ scored.ret[i].risk_mult = RISK_MULT_DEN
        /\ 0 <= scored.ret[i].score
        /\ scored.ret[i].score <= Pts(100)
        /\ scored.ret[i].risk_mult >= RISK_MULT_DEN
        /\ scored.ret[i].score_class \in {"SNIPER", "STANDARD"}

\* a returned signal whose score is exactly SCORE_SNIPER_MIN, classified SNIPER
C20_Witness ==
    /\ scored.ret # <<>>
    /\ scored.ret[1].score = Pts(SCORE_SNIPER_MIN)
    /\ scored.ret[1].score_class = "SNIPER"
    /\ scored.ret[1].risk_mult = HIGH_CONV_RISK_MULT

\* ---- C29
\* C29: the per-day trade counter counts trades opened today: a call adds
\* exactly one to it when it is a successful open_position and nothing
\* otherwise, counted from zero when the call rolled the day over.
C29_CounterCountsOpens ==
    [][trades_today' =
           (IF current_day' # current_day THEN 0 ELSE trades_today)
               + (IF OpenedOk(last') THEN 1 ELSE 0)]_vars

\* ---- C28
\* the position as the exit checks of a tick see it: after the management
\* step, the adverse-tick count and the fast partial of the same tick
SeenByExits(pos, price) ==
    LET m == UpdateAdverseTicks(UpdateTradeManagement(pos, price), price)
    IN [m EXCEPT !.partial_taken = @ \/ PartialTriggered(m, price)]

\* the five exit conditions, each taken alone
StopCond(p, price) ==
    IF p.side = "LONG" THEN price <= p.sl_price ELSE price >= p.sl_price
TargetCond(p, price) ==
    /\ p.partial_taken
    /\ IF p.side = "LONG" THEN price >= p.tp_price ELSE price <= p.tp_price
InvalidCond(p, imbalance, ts) ==
    /\ CountedSample(p, imbalance, ts)
    /\ p.invalid_imb_count + 1 >= INVALID_IMB_CONSEC_SAMPLES
    /\ p.adverse_ticks >= INVALID_IMB_MIN_ADVERSE_TICKS
TimeCond(p, ts, vol_norm) ==
    ts - p.entry_ts >= (IF vol_norm # None /\ vol_norm >= VOL_NORM_HIGH_THRESHOLD
                        THEN MAX_TRADE_LIFETIME_HIGH_VOL_SEC
                        ELSE MAX_TRADE_LIFETIME_LOW_VOL_SEC)

\* the label of the first exit condition that holds, in the order stop,
\* target, invalidation, no-progress, time stop ("" when none holds)
FirstExit(p, price, imbalance, ts, vol_norm) ==
    IF StopCond(p, price) THEN "SL"
    ELSE IF TargetCond(p, price) THEN "TP"
    ELSE IF InvalidCond(p, imbalance, ts) THEN "INVALID_IMB"
    ELSE IF CheckNoProgress(p, price, ts) THEN "NO_PROGRESS"
    ELSE IF TimeCond(p, ts, vol_norm) THEN "TIME_STOP"
    ELSE ""

\* the full closes a step records for an instrument
NewFullCloses(s) == {i \in NewRecordsOf(s) : IsFullClose(trade_history'[i])}

\* C28: on a tick the full close of a position is decided by the first exit
\* condition that holds in the order stop, target, adverse-imbalance
\* invalidation, no-progress, time stop: the tick records exactly one full
\* close, with that condition's label and price (the stop, the target, or the
\* tick price) and removes the position; when no condition holds it records
\* no full close and the position stays.
C28_ExitOrder ==
    [][\A s \in DOMAIN positions :
          (IsTick(last') /\ last'.symbol = s)
          => LET p == SeenByExits(positions[s], last'.args[1])
                 label == FirstExit(p, last'.args[1], last'.args[2],
                                    clock'[s], last'.args[3])
             IN IF label = ""
                THEN NewFullCloses(s) = {} /\ s \in DOMAIN positions'
                ELSE /\ NewFullCloses(s) = {Len(trade_history')}
                     /\ trade_history'[Len(trade_history')].reason = label
                     /\ trade_history'[Len(trade_history')].exit_price
                           = (IF label = "SL" THEN p.sl_price
                              ELSE IF label = "TP" THEN p.tp_price
                              ELSE last'.args[1])
                     /\ s \notin DOMAIN positions']_vars

\* a tick on which the stop and the time stop both held closed the position
\* labeled SL
C28_Witness ==
    /\ IsTick(last)
    /\ last.n_closed = 1
    /\ last.symbol \notin DOMAIN positions
    /\ trade_history[Len(trade_history)].reason = "SL"
    /\ trade_history[Len(trade_history)].symbol = last.symbol
    /\ TimeCond(trade_history[Len(trade_history)], clock[last.symbol],
                last.args[3])

\* ---- C27
\* the first DEPTH_LEVELS levels of a side, as indices
TopIndices(levels) == {i \in DOMAIN levels : i <= DEPTH_LEVELS}

RECURSIVE SumQtyAt(_, _)
SumQtyAt(levels, I) ==
    IF I = {} THEN 0
    ELSE LET i == CHOOSE x \in I : TRUE
         IN levels[i][2] + SumQtyAt(levels, I \ {i})

\* the volume of the top depth levels of a side
TopVolume(levels) == SumQtyAt(levels, TopIndices(levels))

\* C27: order_book_imbalance returns 0 when bids are empty, when asks are
\* empty (also with bids present) or when the combined volume of the top
\* depth levels is not positive; otherwise it returns
\* (bidVol - askVol) / (bidVol + askVol) over the top depth levels.
C27_BookImbalance ==
    book.called =>
        IF \/ book.bids = <<>> \/ book.asks = <<>>
           \/ TopVolume(book.bids) + TopVolume(book.asks) <= 0
        THEN book.ret[1] = 0
        ELSE /\ book.ret[2] > 0
             /\ book.ret[1] * (TopVolume(book.bids) + TopVolume(book.asks))
                   = (TopVolume(book.bids) - TopVolume(book.asks)) * book.ret[2]

\* a call with six levels a side, whose sixth levels would change the result
C27_Witness ==
    /\ book.called
    /\ Len(book.bids) > DEPTH_LEVELS /\ Len(book.asks) > DEPTH_LEVELS
    /\ book.bids[6][2] # book.asks[6][2]
    /\ book.ret[1] # 0


\* ---- C25
\* the last n elements of a log, in arrival order
MostRecent(log, n) == SubSeq(log, Max(1, Len(log) - n + 1), Len(log))

WindowsOf(S, F) ==
    /\ S.prices = MostRecent(F.prices, S.window_size)
    /\ S.cvd_history = MostRecent(F.cvd, S.window_size)
    /\ S.imbalances = MostRecent(F.imbalances, S.window_size)
    /\ S.volumes = MostRecent(F.volumes, S.window_size)
    /\ S.returns = MostRecent(F.returns, S.window_size)
    /\ S.cvd_values = MostRecent(F.cvd, CVD_CONTEXT_WINDOW_TICKS)

\* C25: every window of a MarketStats holds exactly the most recent N values
\* it was given, in arrival order, N being the capacity of the window
\* (window_size; CVD_CONTEXT_WINDOW_TICKS for cvd_values): beyond N the oldest
\* value is dropped.
C25_BoundedWindows == \A s \in Symbols : WindowsOf(stats[s], fed[s])

\* both capacities were exceeded: a window of StatsWindow after more values
\* than that, and the cvd context window after more than its 60
C25_Witness ==
    \E s \in Symbols :
        /\ stats[s].window_size = StatsWindow
        /\ Len(fed[s].returns) > StatsWindow
        /\ Len(fed[s].returns) < Len(fed[s].prices) - 1
        /\ Len(fed[s].cvd) > CVD_CONTEXT_WINDOW_TICKS
        /\ Len(stats[s].cvd_values) = CVD_CONTEXT_WINDOW_TICKS
        /\ Len(stats[s].prices) = StatsWindow


\* ---- C26
\* the windows the latest getter calls read
GotStats == stats[got.symbol]
VolInsufficient == got.vol = None
SlopeBoundary ==
    got.cvd_slope = None <=> Len(GotStats.cvd_history) <= got.lookback
VolNormBoundary ==
    got.vol_norm = None <=> Len(GotStats.volumes) < VOL_NORM_MIN_SAMPLES
SmoothBoundary ==
    /\ got.smooth_imb = None <=> GotStats.imbalances = <<>>
    /\ Len(GotStats.imbalances) \in 1..(got.window - 1)
          => got.smooth_imb = GotStats.imbalances[Len(GotStats.imbalances)]

C22_NoRaise == ~scored.raised

\* ---- C24
\* a stream whose price and book are the same on each of its first 60 snapshots
IsFlatFeed(feed) ==
    \A k \in 1..60 :
        /\ FeedPrice(feed, k) = FeedPrice(feed, 1)
        /\ FeedBids(feed, k) = FeedBids(feed, 1)
        /\ FeedAsks(feed, k) = FeedAsks(feed, 1)

\* C24: on each of the first 60 snapshots of a stream of flat price and flat
\* imbalance generate_signal returns no signal.
C24_ColdStart ==
    \A s \in Symbols :
        (/\ scored.symbol = s
         /\ IsFlatFeed(loop[s].feed)
         /\ loop[s].n \in 1..60)
            => scored.ret = <<>> /\ ~scored.raised

\* the 60th snapshot of a flat stream whose flow alone would score a LONG: it
\* passes the history guard and has no volatility yet
C24_Witness ==
    \E s \in Symbols :
        /\ scored.symbol = s
        /\ IsFlatFeed(loop[s].feed)
        /\ loop[s].n = 60
        /\ scored.m.n = 60
        /\ ~IsHistoryInsufficient(scored.m)
        /\ scored.m.vol = None
        /\ scored.m.cvd_slope >= CVD_SLOPE_STRONG_UP
        /\ scored.m.smooth_imb > IMBALANCE_LONG_ENTRY
        /\ scored.ret = <<>>


\* ---- C23
\* the latest call read a cvd slope above the strong-bullish threshold, a
\* smoothed imbalance above the long extreme and a normalized volume of 0.9
BullishFlow(m) ==
    /\ m.cvd_slope # None /\ m.cvd_slope > CVD_SLOPE_STRONG_UP
    /\ m.smooth_imb # None /\ m.smooth_imb > IMBALANCE_LONG_EXTREME
    /\ m.vol_norm = 9000

\* C23: on the 50th and every later snapshot of a stream of strictly
\* increasing cvd with bullish flow, generate_signal returns a LONG signal of
\* a score of at least SCORE_MIN_FOR_CANDIDATE.
C23_BullishScenario ==
    \A s \in Symbols :
        (/\ scored.symbol = s
         /\ loop[s].feed = "bull"
         /\ loop[s].n >= 50
         /\ BullishFlow(scored.m))
            => /\ scored.ret # <<>>
               /\ scored.ret[1].side = "LONG"
               /\ scored.ret[1].score >= Pts(SCORE_MIN_FOR_CANDIDATE)

\* ---- C30
\* the price the MarketStats of s was given k snapshots before the latest
PriceTicksAgo(s, k) == fed[s].prices[Len(fed[s].prices) - k]

\* C30: generate_signal returns no signal whenever the price of the call
\* differs by more than ANTI_CHASE_MAX_MOVE_PCT from the price of the snapshot
\* ANTI_CHASE_LOOKBACK_TICKS snapshots before the current one.
C30_AntiChaseFiveTicksAgo ==
    \A s \in Symbols :
        (/\ scored.symbol = s
         /\ ~scored.raised
         /\ Len(fed[s].prices) > ANTI_CHASE_LOOKBACK_TICKS
         /\ PriceTicksAgo(s, ANTI_CHASE_LOOKBACK_TICKS) > 0
         /\ Abs(scored.m.price - PriceTicksAgo(s, ANTI_CHASE_LOOKBACK_TICKS)) * PCT_DEN
                > ANTI_CHASE_MAX_MOVE_PCT * PriceTicksAgo(s, ANTI_CHASE_LOOKBACK_TICKS))
            => scored.ret = <<>>


\* ---- C21
\* the risk fractions of the positions other than that of symbol s
RECURSIVE RiskOfOthers(_, _, _)
RiskOfOthers(ps, s, D) ==
    IF D = {} THEN 0
    ELSE LET k == CHOOSE x \in D : TRUE
         IN (IF k = s THEN 0 ELSE ps[k].risk_pct) + RiskOfOthers(ps, s, D \ {k})

\* the entry fee of the position the step opened, if it opened one
EntryFeeOfStep ==
    IF OpenedOk(last') THEN positions'[last'.symbol].entry_fee_total ELSE 0

\* the step is a call of the loop of last'.symbol and touches nothing of the
\* other loops: their positions, exit times and hourly lists stay
OthersUntouched ==
    \A s \in Symbols \ {last'.symbol} :
        /\ (s \in DOMAIN positions) = (s \in DOMAIN positions')
        /\ s \in DOMAIN positions => positions'[s] = positions[s]
        /\ DictGet(last_exit_ts', s, None) = DictGet(last_exit_ts, s, None)
        /\ DictGet(trades_last_hour', s, <<>>) = DictGet(trades_last_hour, s, <<>>)
        /\ \A i \in NewRecords : trade_history'[i].symbol # s

\* C21: whatever the interleaving of the instrument loops, each on_price_tick
\* and each open_position is one step on the shared portfolio that counts
\* each fee, each realized PnL and each risk fraction once: the balance moves
\* by the realized PnL of the records of this step less the entry fee of the
\* position it opened, the open-risk sum by the risk of the position of this
\* loop alone, the day counter by the records of this step, and nothing of
\* another loop changes.
C21_NoRaceOnPortfolio ==
    [][(IsTick(last') \/ IsOpen(last')) =>
          /\ balance' = balance + SumRealized(trade_history', NewRecords)
                             - EntryFeeOfStep
          /\ TotalRiskPctOpen([positions |-> positions'])
                = RiskOfOthers(positions, last'.symbol, DOMAIN positions)
                    + (IF last'.symbol \in DOMAIN positions'
                       THEN positions'[last'.symbol].risk_pct ELSE 0)
          /\ trades_today'
                = (IF current_day' # current_day THEN 0 ELSE trades_today)
                    + Cardinality(NewRecords)
          /\ OthersUntouched]_vars

\* the two loops interleaved: one loop closed its position at a loss while the
\* other loop's position, opened in between, is still open
C21_Witness ==
    /\ IsTick(last)
    /\ last.n_closed = 1
    /\ \E s \in Symbols \ {last.symbol} : s \in DOMAIN positions
    /\ last.symbol \notin DOMAIN positions
    /\ Len(trade_history) = 1
    /\ balance < INITIAL_BALANCE


\* ---- C32
\* C32: for every open position the price that triggers the fast partial is
\* reached before or with the full target: at most tp_price for a LONG, at
\* least tp_price for a SHORT.
C32_PartialBeforeTarget ==
    \A s \in DOMAIN positions :
        IF positions[s].side = "LONG"
        THEN positions[s].entry_price * (PCT_DEN + PARTIAL_TP_TRIGGER_PCT)
                <= positions[s].tp_price * PCT_DEN
        ELSE positions[s].entry_price * (PCT_DEN - PARTIAL_TP_TRIGGER_PCT)
                >= positions[s].tp_price * PCT_DEN

\* ---- C33
\* the lifetime limit for a normalized volume
SelectedLimit(vol_norm) ==
    IF vol_norm # None /\ vol_norm >= VOL_NORM_HIGH_THRESHOLD
    THEN MAX_TRADE_LIFETIME_HIGH_VOL_SEC
    ELSE MAX_TRADE_LIFETIME_LOW_VOL_SEC

\* the age on the tick of the step of the position held before it
AgeOnTick(s) == clock'[s] - positions[s].entry_ts

\* no exit condition that comes before the time stop holds on the tick
NoEarlierExit(s) ==
    LET p == SeenByExits(positions[s], last'.args[1])
    IN /\ ~StopCond(p, last'.args[1])
       /\ ~TargetCond(p, last'.args[1])
       /\ ~InvalidCond(p, last'.args[2], clock'[s])
       /\ ~CheckNoProgress(p, last'.args[1], clock'[s])

\* the step closed the position at the tick price labeled TIME_STOP
TimeStopped(s) ==
    /\ NewFullCloses(s) = {Len(trade_history')}
    /\ trade_history'[Len(trade_history')].reason = "TIME_STOP"
    /\ trade_history'[Len(trade_history')].exit_price = last'.args[1]
    /\ s \notin DOMAIN positions'

\* a record labeled TIME_STOP among those of the step
SomeTimeStop(s) ==
    \E i \in NewRecordsOf(s) : trade_history'[i].reason = "TIME_STOP"

\* C33 as stated: the limit is the high-volatility lifetime for a normalized
\* volume at or above the threshold and the low-volatility one otherwise; with
\* no earlier exit the tick closes the position labeled TIME_STOP at the
\* current price if its age exceeds the limit, and the time stop closes
\* nothing while the age does not exceed it.
C33_TimeStopExceeds ==
    [][\A s \in DOMAIN positions :
          (IsTick(last') /\ last'.symbol = s)
          => /\ NoEarlierExit(s)
                   => (TimeStopped(s) <=> AgeOnTick(s) > SelectedLimit(last'.args[3]))
             /\ SomeTimeStop(s) => AgeOnTick(s) > SelectedLimit(last'.args[3])]_vars

\* C33, amended: the same, with the position closed labeled TIME_STOP if its
\* age has reached the limit (is at or above it), and not closed by the time
\* stop while its age is below the limit.
C33_TimeStopReached ==
    [][\A s \in DOMAIN positions :
          (IsTick(last') /\ last'.symbol = s)
          => /\ NoEarlierExit(s)
                   => (TimeStopped(s) <=> AgeOnTick(s) >= SelectedLimit(last'.args[3]))
             /\ SomeTimeStop(s) => AgeOnTick(s) >= SelectedLimit(last'.args[3])]_vars

\* a position closed labeled TIME_STOP at the tick price after exactly the
\* low-volatility lifetime, the normalized volume being unavailable
C33_Witness ==
    /\ IsTick(last)
    /\ last.n_closed = 1
    /\ last.args[3] = None
    /\ last.symbol \notin DOMAIN positions
    /\ trade_history[Len(trade_history)].reason = "TIME_STOP"
    /\ trade_history[Len(trade_history)].exit_price = last.args[1]
    /\ trade_history[Len(trade_history)].exit_ts
          - trade_history[Len(trade_history)].entry_ts
             = MAX_TRADE_LIFETIME_LOW_VOL_SEC

\* ---- C34
\* C34: a position open_position has just opened has a positive entry price
\* and its stop strictly on the adverse side of it, its target on the other:
\* sl_price < entry_price < tp_price for a LONG, the mirror for a SHORT (an
\* open whose computed stop is not on the adverse side is rejected).
C34_StopOnAdverseSide ==
    OpenedOk(last) =>
        /\ positions[last.symbol].entry_price > 0
        /\ IF positions[last.symbol].side = "LONG"
           THEN /\ positions[last.symbol].sl_price < positions[last.symbol].entry_price
                /\ positions[last.symbol].entry_price < positions[last.symbol].tp_price
           ELSE /\ positions[last.symbol].sl_price > positions[last.symbol].entry_price
                /\ positions[last.symbol].entry_price > positions[last.symbol].tp_price

\* ---- C35
\* the quantity for a capital base: base * risk fraction / |entry - stop|, cut
\* to 90% of what the balance and the leverage allow when its notional over
\* the leverage is more than the balance
QtyFor(base, bal, entry_price, sl_price, risk_pct) ==
    LET qty == MulPct(base, risk_pct) \div Abs(entry_price - sl_price)
    IN IF entry_price * qty > bal * LEVERAGE
       THEN ((bal * LEVERAGE * 9) \div 10) \div entry_price
       ELSE qty

\* C35: the quantity of a position opened right after a tick has marked the
\* portfolio to market is equity * risk fraction / |entry - stop|, with the
\* equity (balance plus mark-to-market of the open positions) of that moment,
\* cut to 90% of what balance and leverage allow when the margin is short.
C35_QtyFromEquity ==
    [][(IsTick(last) /\ OpenedOk(last'))
          => positions'[last'.symbol].qty
                = QtyFor(equity, balance, positions'[last'.symbol].entry_price,
                         positions'[last'.symbol].sl_price,
                         positions'[last'.symbol].risk_pct)]_vars

\* ---- C36
\* C36: the cooldown guard turns an open down only when the instrument had a
\* full close less than COOLDOWN_AFTER_TRADE_SEC before the timestamp of the
\* open; an instrument that never closed a position is never turned down by
\* it.
C36_CooldownOnlyAfterClose ==
    (RejectedOpen(last) /\ last.guard = "cooldown")
        => \E i \in FullClosesOf(last.symbol) :
              clock[last.symbol] - trade_history[i].exit_ts
                  < COOLDOWN_AFTER_TRADE_SEC

\* ---- C37
\* entry_fee of open_position for a position of initial quantity qty
EntryFeeOf(entry_price, qty) == (entry_price * qty * FEE_MAKER) \div PCT_DEN
RECURSIVE SumOpenEntryFees(_, _)
\* the entry fees of the positions of posns on the instruments in S
SumOpenEntryFees(posns, S) ==
    IF S = {} THEN 0
    ELSE LET s == CHOOSE x \in S : TRUE
         IN EntryFeeOf(posns[s].entry_price, posns[s].initial_qty)
              + SumOpenEntryFees(posns, S \ {s})
\* the full-close records of the history: one per position that is gone
AllFullCloses == {i \in DOMAIN trade_history : IsFullClose(trade_history[i])}
\* the quantity the position closed by record i was opened with: what its
\* records closed, the partial one included
OpenedQtyOf(i) ==
    SumQty(trade_history,
           RecordsOfPosition(trade_history[i].symbol, trade_history[i].entry_ts))
RECURSIVE SumClosedEntryFees(_)
\* the entry fees of the positions closed by the records with an index in S
SumClosedEntryFees(S) ==
    IF S = {} THEN 0
    ELSE LET i == CHOOSE n \in S : TRUE
         IN EntryFeeOf(trade_history[i].entry_price, OpenedQtyOf(i))
              + SumClosedEntryFees(S \ {i})

\* C37: balance is INITIAL_BALANCE less the maker entry fee of every position
\* ever opened (the open ones and the ones a full-close record stands for)
\* plus the realized PnL of every record of the history; and the history only
\* grows at its end: no step changes or removes a record it holds.
C37_BalanceLedger ==
    /\ [](balance = INITIAL_BALANCE
                      - SumOpenEntryFees(positions, DOMAIN positions)
                      - SumClosedEntryFees(AllFullCloses)
                      + SumRealized(trade_history, DOMAIN trade_history))
    /\ [][/\ Len(trade_history') >= Len(trade_history)
          /\ SubSeq(trade_history', 1, Len(trade_history)) = trade_history]_vars

\* a position closed in two records, a second position open, and a balance
\* that has paid two entry fees
C37_Witness ==
    /\ \E i \in AllFullCloses :
          /\ Cardinality(RecordsOfPosition(trade_history[i].symbol,
                                           trade_history[i].entry_ts)) = 2
          /\ EntryFeeOf(trade_history[i].entry_price, OpenedQtyOf(i)) > 0
    /\ DOMAIN positions # {}
    /\ SumOpenEntryFees(positions, DOMAIN positions) > 0
    /\ balance # INITIAL_BALANCE

\* ---- C39
\* the entries of dictionary d for the keys in S
EntriesOf(d, S) == [k \in DOMAIN d \cap S |-> d[k]]
\* the instruments other than the one the latest call was for
OtherSymbols == Symbols \ {last'.symbol}

\* C39: an on_price_tick for one instrument leaves the position, the last-exit
\* timestamp and the hourly list of every other instrument as they were and
\* appends records of its own instrument only; it opens nothing: what it may
\* change is its own instrument's position and entries and the shared balance,
\* equity, trade history and day counters.
C39_TickTouchesOwnInstrument ==
    [][IsTick(last') =>
          /\ EntriesOf(positions', OtherSymbols) = EntriesOf(positions, OtherSymbols)
          /\ EntriesOf(last_exit_ts', OtherSymbols)
                = EntriesOf(last_exit_ts, OtherSymbols)
          /\ EntriesOf(trades_last_hour', OtherSymbols)
                = EntriesOf(trades_last_hour, OtherSymbols)
          /\ \A i \in NewRecords : trade_history'[i].symbol = last'.symbol
          /\ DOMAIN positions' \subseteq DOMAIN positions]_vars

\* a tick closed its instrument's position in full, changing balance, history
\* and the day counter, while another instrument holds a position and has a
\* last-exit timestamp and an hourly list of its own
C39_Witness ==
    /\ IsTick(last)
    /\ last.n_closed >= 1
    /\ last.symbol \notin DOMAIN positions
    /\ trade_history[Len(trade_history)].exit_ts = clock[last.symbol]
    /\ \E s \in Symbols \ {last.symbol} :
          /\ s \in DOMAIN positions
          /\ s \in DOMAIN last_exit_ts
          /\ DictGet(trades_last_hour, s, <<>>) # <<>>

\* ---- C38
\* C38: a tick at or beyond a position's entry plus the low-volatility
\* lifetime leaves no position on the instrument and ends with a full-close
\* record for it, whatever the price, imbalance and normalized volume; and a
\* position whose stream reaches that timestamp is eventually closed in full,
\* its instrument being flat again.
C38_PositionsEnd ==
    /\ [][\A s \in DOMAIN positions :
            (/\ IsTick(last') /\ last'.symbol = s
             /\ AgeOnTick(s) >= MAX_TRADE_LIFETIME_LOW_VOL_SEC)
            => /\ s \notin DOMAIN positions'
               /\ NewFullCloses(s) = {Len(trade_history')}
               /\ trade_history'[Len(trade_history')].entry_ts
                     = positions[s].entry_ts]_vars
    /\ \A s \in LifeSymbols :
          LateTickAhead(s) ~> (s \notin DOMAIN positions /\ FullClosesOf(s) # {})

\* the instrument is flat after a tick later than the low-volatility lifetime
\* closed its position for a reason other than the time stop
C38_Witness ==
    /\ IsTick(last)
    /\ last.n_closed = 1
    /\ last.symbol \notin DOMAIN positions
    /\ trade_history[Len(trade_history)].reason # "TIME_STOP"
    /\ trade_history[Len(trade_history)].exit_ts
          - trade_history[Len(trade_history)].entry_ts
             > MAX_TRADE_LIFETIME_LOW_VOL_SEC

\* ---- C31
\* the iterations of the loop of s in which on_price_tick had a position
\* and closed nothing: every exit test ran, the invalidation test included
InvalidationRan(s) ==
    {i \in DOMAIN loop[s].seen :
        loop[s].seen[i].had_position /\ loop[s].seen[i].n_closed = 0}

\* C31: the imbalance the loop hands to on_price_tick, which the invalidation
\* exit reads, is the smoothed imbalance of that snapshot (the mean of the
\* last SMOOTH_IMB_WINDOW samples), not the imbalance of the snapshot's book.
C31_SmoothedImbalanceToExit ==
    \A s \in Symbols : \A i \in InvalidationRan(s) :
        loop[s].seen[i].tick_imbalance
            = ImbalanceAsFraction(loop[s].seen[i].smooth_imb)

\* ---- C40
\* the volatility of the latest iteration before the i-th of log sn that had
\* one
PrevVolAt(sn, i) ==
    LET J == {j \in 1..(i - 1) : sn[j].vol # None}
    IN IF J = {} THEN None ELSE sn[CHOOSE j \in J : \A k \in J : k <= j].vol

\* from iteration i to t + KILL_SWITCH_COOLDOWN_SEC, t the timestamp of i, no
\* iteration calls generate_signal or open_position
QuietAfter(sn, i) ==
    \A j \in i..Len(sn) :
        sn[j].ts < sn[i].ts + KILL_SWITCH_COOLDOWN_SEC
            => ~sn[j].evaluated /\ ~sn[j].attempted

\* the volatility of iteration i is above VOLATILITY_MAX
AboveMaxAt(sn, i) == sn[i].vol # None /\ sn[i].vol > VOLATILITY_MAX

\* the iteration of the step falls into a kill window of its loop
InKillWindow(s) ==
    \E i \in DOMAIN loop'[s].seen :
        /\ \/ AboveMaxAt(loop'[s].seen, i)
           \/ /\ loop'[s].seen[i].vol # None
              /\ PrevVolAt(loop'[s].seen, i) > 0
              /\ loop'[s].seen[i].vol
                    >= KILL_SWITCH_VOL_MULTIPLIER * PrevVolAt(loop'[s].seen, i)
        /\ clock'[s] < loop'[s].seen[i].ts + KILL_SWITCH_COOLDOWN_SEC

\* in a kill window the iteration still calls on_price_tick, and nothing
\* after it: the latest call is the tick of this snapshot, and a position
\* whose stop the price has reached is closed
ManagedInKillWindow ==
    \A s \in Symbols :
        (Len(loop'[s].seen) = Len(loop[s].seen) + 1 /\ InKillWindow(s))
        => /\ IsTick(last') /\ last'.symbol = s
           /\ Len(trade_history') - Len(trade_history) = last'.n_closed
           /\ (s \in DOMAIN positions
               /\ StopCond(SeenByExits(positions[s], last'.args[1]), last'.args[1]))
                 => s \notin DOMAIN positions'

\* C40 as stated: after an iteration at t whose volatility is above
\* VOLATILITY_MAX or at least KILL_SWITCH_VOL_MULTIPLIER times the previous
\* volatility, the loop calls neither generate_signal nor open_position
\* until t + KILL_SWITCH_COOLDOWN_SEC.
C40_KillWindow ==
    \A s \in Symbols : \A i \in DOMAIN loop[s].seen :
        (\/ AboveMaxAt(loop[s].seen, i)
         \/ /\ loop[s].seen[i].vol # None
            /\ PrevVolAt(loop[s].seen, i) # None
            /\ loop[s].seen[i].vol
                  >= KILL_SWITCH_VOL_MULTIPLIER * PrevVolAt(loop[s].seen, i))
        => QuietAfter(loop[s].seen, i)

\* C40, amended: the same with the spike counted only against a positive
\* previous volatility; and in a kill window every iteration still calls
\* on_price_tick, which closes a position whose exit is due.
C40_KillWindowPositivePrev ==
    /\ [](\A s \in Symbols : \A i \in DOMAIN loop[s].seen :
            (\/ AboveMaxAt(loop[s].seen, i)
             \/ /\ loop[s].seen[i].vol # None
                /\ PrevVolAt(loop[s].seen, i) > 0
                /\ loop[s].seen[i].vol
                      >= KILL_SWITCH_VOL_MULTIPLIER * PrevVolAt(loop[s].seen, i))
            => QuietAfter(loop[s].seen, i))
    /\ [][ManagedInKillWindow]_vars

\* a spike at four times a positive volatility found a position open; the
\* position was closed by a later tick inside the kill window, two iterations
\* passed without a signal evaluation, and the first iteration at the end of
\* the window evaluated a signal again
C40_Witness ==
    \E s \in Symbols :
        LET sn == loop[s].seen
        IN \E i \in DOMAIN sn : \E j \in (i + 1)..Len(sn) :
              /\ ~AboveMaxAt(sn, i)
              /\ PrevVolAt(sn, i) > 0
              /\ sn[i].vol >= KILL_SWITCH_VOL_MULTIPLIER * PrevVolAt(sn, i)
              /\ sn[i].had_position /\ sn[i].n_closed = 0
              /\ sn[j].ts < sn[i].ts + KILL_SWITCH_COOLDOWN_SEC
              /\ sn[j].had_position /\ sn[j].n_closed = 1
              /\ ~sn[j].evaluated
              /\ sn[Len(sn)].ts = sn[i].ts + KILL_SWITCH_COOLDOWN_SEC
              /\ sn[Len(sn)].evaluated
=============================================================================
